---------------------------- MODULE Spec2Model ----------------------------
(***************************************************************************)
(* Model of the ingredient classifier of tools/build_ingredients_db.py:    *)
(* the category registry, the two ordered rule tables, the ingredient      *)
(* filter and the row loop of build_database.                              *)
(*                                                                         *)
(* Text is a TLA+ string; Len, SubSeq and \o act on it character by        *)
(* character.  A Python value that may be None (a csv cell, the result of  *)
(* a matcher) is a sequence of at most one element: None is << >> and a    *)
(* value v is << v >>.                                                     *)
(***************************************************************************)
EXTENDS Integers, Sequences, FiniteSets, TLC

VARIABLES
    pc,             \* position of build_database: "start", "rows", "done",
                    \* "returned", or "raised" (an exception left the function)
    file_exists,    \* os.path.exists(file_path)
    generate_meta,  \* the generate_meta argument
    category_db,    \* dict name -> category ordinal
    meta_db,        \* dict name -> metadata record, or None
    skipped,        \* counters of build_database
    classified,
    unclassified,
    i,              \* number of rows the loop has taken from the reader
    row,            \* loop locals of the last iteration
    name,
    off_cat,
    tags,
    cat,
    calls,          \* the functions the last iteration called, in call order
    outcome,        \* how the last iteration ended
    written,        \* the artifacts written so far, in order
    log,            \* history: what each row read so far is by itself, in order
    arg,            \* the text a function is applied to (function-level checks)
    ret,            \* what the functions applied to arg returned
    csv_pc,         \* position of parse_multirow_csv: "start", "rows", "returned"
    headers,        \* the header row, normalized once the file is open
    recipes,        \* locals of parse_multirow_csv
    current_recipe,
    current_cuisine,
    current_subcategory,
    rows_read       \* history: the rows read so far and what each was taken for

vars == << pc, file_exists, generate_meta, category_db, meta_db, skipped,
           classified, unclassified, i, row, name, off_cat, tags, cat, calls,
           outcome, written, log, arg, ret, csv_pc, headers, recipes,
           current_recipe, current_cuisine, current_subcategory, rows_read >>

\* the variables of parse_multirow_csv
csv_vars == << csv_pc, headers, recipes, current_recipe, current_cuisine,
              current_subcategory, rows_read >>

\* the variables of build_database and of the function-level checks
build_vars == << pc, file_exists, generate_meta, category_db, meta_db, skipped,
                classified, unclassified, i, row, name, off_cat, tags, cat, calls,
                outcome, written, log, arg, ret >>

None == << >>
Some(v) == << v >>

\* the value of ret before any function was applied
NoCall == [fn |-> "none"]

(***************************************************************************)
(* CATEGORY ENUM                                                           *)
(***************************************************************************)
\* (variant: "unknown" and "pantry" listed in the other order)
CATEGORIES_without_pantry ==
    << "produce", "meat", "poultry", "seafood", "egg", "cheese", "dairy",
       "grain", "pasta", "legume", "nut", "spice", "condiment", "oil",
       "vinegar", "flour", "sugar", "leavening", "alcohol", "pop", "juice",
       "beverage", "unknown" >>

CATEGORIES_reordered ==
    << "produce", "meat", "poultry", "seafood", "egg", "cheese", "dairy",
       "grain", "pasta", "legume", "nut", "spice", "condiment", "oil",
       "vinegar", "flour", "sugar", "leavening", "alcohol", "pop", "juice",
       "beverage", "pantry", "unknown" >>

CATEGORIES ==
    << "produce", "meat", "poultry", "seafood", "egg", "cheese", "dairy",
       "grain", "pasta", "legume", "nut", "spice", "condiment", "oil",
       "vinegar", "flour", "sugar", "leavening", "alcohol", "pop", "juice",
       "beverage", "unknown", "pantry" >>

CAT_from_one ==
    [c \in {CATEGORIES[k] : k \in DOMAIN CATEGORIES} |->
        CHOOSE k \in DOMAIN CATEGORIES :
            /\ CATEGORIES[k] = c
            /\ \A m \in DOMAIN CATEGORIES : CATEGORIES[m] = c => m <= k]

\* enumerate() counts from 0; a name listed twice keeps its last index
CAT ==
    [c \in {CATEGORIES[k] : k \in DOMAIN CATEGORIES} |->
        (CHOOSE k \in DOMAIN CATEGORIES :
            /\ CATEGORIES[k] = c
            /\ \A m \in DOMAIN CATEGORIES : CATEGORIES[m] = c => m <= k) - 1]

UNKNOWN == CAT["unknown"]

CatIndex_first(c) == IF c \in DOMAIN CAT THEN CAT[c] ELSE 0

\* CAT.get(c, UNKNOWN)
CatIndex(c) == IF c \in DOMAIN CAT THEN CAT[c] ELSE UNKNOWN

(***************************************************************************)
(* Text primitives                                                         *)
(***************************************************************************)
\* k in s
Contains(s, k) ==
    \E p \in 1..(Len(s) - Len(k) + 1) : SubSeq(s, p, p + Len(k) - 1) = k

CharAt(s, p) == SubSeq(s, p, p)

UpperCase == "ABCDEFGHIJKLMNOPQRSTUVWXYZ"
LowerCase == "abcdefghijklmnopqrstuvwxyz"

LowerChar(c) ==
    IF \E k \in 1..Len(UpperCase) : CharAt(UpperCase, k) = c
    THEN CharAt(LowerCase, CHOOSE k \in 1..Len(UpperCase) : CharAt(UpperCase, k) = c)
    ELSE c

\* str.lower(); the letters of the texts used here are ASCII
RECURSIVE lower(_)
lower(s) ==
    IF Len(s) = 0 THEN s
    ELSE LowerChar(CharAt(s, 1)) \o lower(SubSeq(s, 2, Len(s)))

IsSpace(c) == c \in {" ", "\t", "\n", "\r", "\f"}

RECURSIVE lstrip(_)
lstrip(s) ==
    IF Len(s) > 0 /\ IsSpace(CharAt(s, 1)) THEN lstrip(SubSeq(s, 2, Len(s))) ELSE s

RECURSIVE rstrip(_)
rstrip(s) ==
    IF Len(s) > 0 /\ IsSpace(CharAt(s, Len(s)))
    THEN rstrip(SubSeq(s, 1, Len(s) - 1)) ELSE s

strip_left_only(s) == lstrip(s)

\* str.strip(), for the ASCII white space
strip(s) == rstrip(lstrip(s))

IsDigit(c) == c \in {"0", "1", "2", "3", "4", "5", "6", "7", "8", "9"}

DigitRun == 5

\* re.search(r'\d{5,}', s), for the ASCII digits
HasDigitRun(s) ==
    \E p \in 1..(Len(s) - DigitRun + 1) :
        \A k \in 0..(DigitRun - 1) : IsDigit(CharAt(s, p + k))

(***************************************************************************)
(* KEYWORD -> CATEGORY RULES (checked in order, first match wins)          *)
(***************************************************************************)
KEYWORD_RULES ==
    <<
       << <<"stock">>, "pantry" >>, << <<"vegetable stock">>, "pantry" >>,
       << <<"chicken stock">>, "pantry" >>, << <<"beef stock">>, "pantry" >>,
       << <<"]chicken broth">>, "pantry" >>,
       << <<"]beef broth">>, "pantry" >>,
       << <<"]vegetable broth">>, "pantry" >>,
       << <<"bouillon">>, "pantry" >>, << <<"tomato sauce">>, "pantry" >>,
       << <<"tomato puree">>, "pantry" >>,
       << <<"sun-dried tomato">>, "pantry" >>,
       << <<"sundried tomato">>, "pantry" >>,
       << <<"sun dried tomato">>, "pantry" >>,
       << <<"canned tomato">>, "pantry" >>,
       << <<"diced tomato">>, "pantry" >>,
       << <<"crushed tomato">>, "pantry" >>,
       << <<"whole tomato">>, "pantry" >>,
       << <<"roasted pepper">>, "pantry" >>,
       << <<"artichoke heart">>, "pantry" >>, << <<"olive">>, "pantry" >>,
       << <<"caper">>, "pantry" >>, << <<"pickle">>, "pantry" >>,
       << <<"gherkin">>, "pantry" >>, << <<"coconut cream">>, "pantry" >>,
       << <<"coconut milk">>, "pantry" >>,
       << <<"anchovy paste">>, "pantry" >>, << <<"chipotle">>, "pantry" >>,
       << <<"harissa">>, "pantry" >>, << <<"gochujang">>, "pantry" >>,
       << <<"doubanjiang">>, "pantry" >>, << <<"doenjang">>, "pantry" >>,
       << <<"preserved mustard">>, "pantry" >>,
       << <<"sesame paste">>, "pantry" >>, << <<"dashi">>, "pantry" >>,
       << <<"bonito">>, "pantry" >>, << <<"kombu">>, "pantry" >>,
       << <<"nori">>, "pantry" >>, << <<"seaweed">>, "pantry" >>,
       << <<"dried shrimp">>, "pantry" >>,
       << <<"shrimp paste">>, "pantry" >>, << <<"fish paste">>, "pantry" >>,
       << <<"curry paste">>, "pantry" >>, << <<"bean paste">>, "pantry" >>,
       << <<"chili paste">>, "pantry" >>, << <<"miso">>, "pantry" >>,
       << <<"]kimchi">>, "pantry" >>, << <<"tahini">>, "pantry" >>,
       << <<"pesto">>, "pantry" >>, << <<"hoisin">>, "condiment" >>,
       << <<"tomato ketchup">>, "condiment" >>,
       << <<"soy sauce">>, "condiment" >>,
       << <<"fish sauce">>, "condiment" >>,
       << <<"hot sauce">>, "condiment" >>,
       << <<"barbecue sauce">>, "condiment" >>,
       << <<"bbq sauce">>, "condiment" >>, << <<"teriyaki">>, "condiment" >>,
       << <<"]steak sauce">>, "condiment" >>,
       << <<"hoisin">>, "condiment" >>,
       << <<"oyster sauce">>, "condiment" >>,
       << <<"worcestershire">>, "condiment" >>,
       << <<"sriracha">>, "condiment" >>, << <<"mustard">>, "condiment" >>,
       << <<"mayonnaise">>, "condiment" >>, << <<"ketchup">>, "condiment" >>,
       << <<"salsa">>, "condiment" >>, << <<"pesto">>, "condiment" >>,
       << <<"miso">>, "condiment" >>, << <<"tahini">>, "condiment" >>,
       << <<"sambal">>, "condiment" >>, << <<"chutney">>, "condiment" >>,
       << <<"relish">>, "condiment" >>, << <<"dressing">>, "condiment" >>,
       << <<"peanut butter">>, "pantry" >>,
       << <<"almond butter">>, "pantry" >>,
       << <<"cashew butter">>, "pantry" >>, << <<"nutella">>, "pantry" >>,
       << <<"hazelnut spread">>, "pantry" >>,
       << <<"]oyster mushroom sauce">>, "pantry" >>,
       << <<"]starch water">>, "pantry" >>,
       << <<"]stick rice flour">>, "pantry" >>,
       << <<"]wakame">>, "pantry" >>, << <<"cream cheese">>, "cheese" >>,
       << <<"goat cheese">>, "cheese" >>, << <<"blue cheese">>, "cheese" >>,
       << <<"cottage cheese">>, "cheese" >>,
       << <<"almond milk">>, "pantry" >>, << <<"oat milk">>, "pantry" >>,
       << <<"soy milk">>, "pantry" >>, << <<"olive oil">>, "oil" >>,
       << <<"sesame oil">>, "oil" >>, << <<"coconut oil">>, "oil" >>,
       << <<"canola oil">>, "oil" >>, << <<"vegetable oil">>, "oil" >>,
       << <<"sunflower oil">>, "oil" >>, << <<"avocado oil">>, "oil" >>,
       << <<"truffle oil">>, "oil" >>,
       << <<"balsamic vinegar">>, "vinegar" >>,
       << <<"red wine vinegar">>, "vinegar" >>,
       << <<"white wine vinegar">>, "vinegar" >>,
       << <<"apple cider vinegar">>, "vinegar" >>,
       << <<"rice vinegar">>, "vinegar" >>,
       << <<"sherry vinegar">>, "vinegar" >>,
       << <<"lemon juice">>, "juice" >>, << <<"lime juice">>, "juice" >>,
       << <<"orange juice">>, "juice" >>, << <<"apple juice">>, "juice" >>,
       << <<"cranberry juice">>, "juice" >>,
       << <<"grapefruit juice">>, "juice" >>,
       << <<"pomegranate juice">>, "juice" >>,
       << <<"maple syrup">>, "sugar" >>, << <<"corn syrup">>, "sugar" >>,
       << <<"agave">>, "sugar" >>, << <<"molasses">>, "sugar" >>,
       << <<"vanilla extract">>, "sugar" >>,
       << <<"cocoa powder">>, "sugar" >>,
       << <<"baking powder">>, "leavening" >>,
       << <<"baking soda">>, "leavening" >>,
       << <<"bicarbonate">>, "leavening" >>, << <<"yeast">>, "leavening" >>,
       << <<"cream of tartar">>, "leavening" >>,
       << <<"gelatin">>, "leavening" >>, << <<"agar">>, "leavening" >>,
       << <<"pectin">>, "leavening" >>, << <<"bread flour">>, "flour" >>,
       << <<"all-purpose flour">>, "flour" >>,
       << <<"all purpose flour">>, "flour" >>,
       << <<"cake flour">>, "flour" >>, << <<"pastry flour">>, "flour" >>,
       << <<"self-raising flour">>, "flour" >>,
       << <<"self raising flour">>, "flour" >>,
       << <<"whole wheat flour">>, "flour" >>,
       << <<"vital wheat gluten">>, "flour" >>,
       << <<"wheat gluten">>, "flour" >>, << <<"vital gluten">>, "flour" >>,
       << <<"]shortening">>, "flour" >>, << <<"]cornstarch">>, "flour" >>,
       << <<"corn starch">>, "flour" >>, << <<"cornflour">>, "flour" >>,
       << <<"almond flour">>, "flour" >>, << <<"rice flour">>, "flour" >>,
       << <<"tapioca">>, "flour" >>, << <<"arrowroot">>, "flour" >>,
       << <<"semolina">>, "flour" >>, << <<"brown sugar">>, "sugar" >>,
       << <<"powdered sugar">>, "sugar" >>, << <<"icing sugar">>, "sugar" >>,
       << <<"confectioner">>, "sugar" >>, << <<"demerara">>, "sugar" >>,
       << <<"turbinado">>, "sugar" >>, << <<"muscovado">>, "sugar" >>,
       << <<"caster sugar">>, "sugar" >>,
       << <<"granulated sugar">>, "sugar" >>,
       << <<"dark chocolate">>, "sugar" >>,
       << <<"white chocolate">>, "sugar" >>,
       << <<"milk chocolate">>, "sugar" >>,
       << <<"chocolate chip">>, "sugar" >>, << <<"ground beef">>, "meat" >>,
       << <<"ground pork">>, "meat" >>, << <<"ground turkey">>, "poultry" >>,
       << <<"ground chicken">>, "poultry" >>,
       << <<"sweet potato">>, "produce" >>,
       << <<"green bean">>, "produce" >>, << <<"bell pepper">>, "produce" >>,
       << <<"banana">>, "produce" >>, << <<"strawberry">>, "produce" >>,
       << <<"blueberry">>, "produce" >>, << <<"raspberry">>, "produce" >>,
       << <<"blackberry">>, "produce" >>, << <<"grape">>, "produce" >>,
       << <<"peach">>, "produce" >>, << <<"pear">>, "produce" >>,
       << <<"cherry">>, "produce" >>, << <<"plum">>, "produce" >>,
       << <<"watermelon">>, "produce" >>, << <<"cantaloupe">>, "produce" >>,
       << <<"honeydew">>, "produce" >>, << <<"mango">>, "produce" >>,
       << <<"pineapple">>, "produce" >>, << <<"kiwi">>, "produce" >>,
       << <<"papaya">>, "produce" >>, << <<"ya cai">>, "produce" >>,
       << <<"leek">>, "produce" >>, << <<"shiitake">>, "produce" >>,
       << <<"enoki">>, "produce" >>, << <<"portobello">>, "produce" >>,
       << <<"bok choy">>, "produce" >>, << <<"napa cabbage">>, "produce" >>,
       << <<"radish">>, "produce" >>, << <<"turnip">>, "produce" >>,
       << <<"beet">>, "produce" >>, << <<"watercress">>, "produce" >>,
       << <<"arugula">>, "produce" >>, << <<"endive">>, "produce" >>,
       << <<"radicchio">>, "produce" >>, << <<"rhubarb">>, "produce" >>,
       << <<"plantain">>, "produce" >>, << <<"fig">>, "produce" >>,
       << <<"guava">>, "produce" >>, << <<"lemon zest">>, "produce" >>,
       << <<"lime zest">>, "produce" >>, << <<"orange zest">>, "produce" >>,
       << <<"black bean">>, "legume" >>, << <<"kidney bean">>, "legume" >>,
       << <<"pinto bean">>, "legume" >>, << <<"navy bean">>, "legume" >>,
       << <<"chickpea">>, "legume" >>, << <<"lentil">>, "legume" >>,
       << <<"pine nut">>, "nut" >>, << <<"sesame seed">>, "nut" >>,
       << <<"sunflower seed">>, "nut" >>, << <<"pumpkin seed">>, "nut" >>,
       << <<"poppy seed">>, "nut" >>, << <<"flax seed">>, "nut" >>,
       << <<"chia seed">>, "nut" >>, << <<"red wine">>, "alcohol" >>,
       << <<"white wine">>, "alcohol" >>, << <<"rice wine">>, "alcohol" >>,
       << <<"kosher salt">>, "spice" >>, << <<"sea salt">>, "spice" >>,
       << <<"maldon salt">>, "spice" >>, << <<"fine salt">>, "spice" >>,
       << <<"table salt">>, "spice" >>, << <<"fleur de sel">>, "spice" >>,
       << <<"black pepper">>, "spice" >>, << <<"white pepper">>, "spice" >>,
       << <<"cayenne pepper">>, "spice" >>, << <<"chili flake">>, "spice" >>,
       << <<"red pepper flake">>, "spice" >>,
       << <<"chili powder">>, "spice" >>, << <<"curry powder">>, "spice" >>,
       << <<"garam masala">>, "spice" >>,
       << <<"italian seasoning">>, "spice" >>,
       << <<"five spice">>, "spice" >>, << <<"onion powder">>, "spice" >>,
       << <<"garlic powder">>, "spice" >>, << <<"heavy cream">>, "dairy" >>,
       << <<"whipping cream">>, "dairy" >>, << <<"sour cream">>, "dairy" >>,
       << <<"half and half">>, "dairy" >>,
       << <<"crème fraîche">>, "dairy" >>,
       << <<"creme fraiche">>, "dairy" >>,
       << <<"evaporated milk">>, "dairy" >>,
       << <<"condensed milk">>, "dairy" >>, << <<"buttermilk">>, "dairy" >>,
       << <<"wine">>, "alcohol" >>, << <<"beer">>, "alcohol" >>,
       << <<"ale">>, "alcohol" >>, << <<"lager">>, "alcohol" >>,
       << <<"stout">>, "alcohol" >>, << <<"brandy">>, "alcohol" >>,
       << <<"cognac">>, "alcohol" >>, << <<"rum">>, "alcohol" >>,
       << <<"vodka">>, "alcohol" >>, << <<"whiskey">>, "alcohol" >>,
       << <<"whisky">>, "alcohol" >>, << <<"bourbon">>, "alcohol" >>,
       << <<"tequila">>, "alcohol" >>, << <<"gin">>, "alcohol" >>,
       << <<"sake">>, "alcohol" >>, << <<"mirin">>, "alcohol" >>,
       << <<"sherry">>, "alcohol" >>, << <<"port">>, "alcohol" >>,
       << <<"marsala">>, "alcohol" >>, << <<"kahlua">>, "alcohol" >>,
       << <<"amaretto">>, "alcohol" >>, << <<"grappa">>, "alcohol" >>,
       << <<"absinthe">>, "alcohol" >>, << <<"vermouth">>, "alcohol" >>,
       << <<"champagne">>, "alcohol" >>, << <<"prosecco">>, "alcohol" >>,
       << <<"cider">>, "alcohol" >>, << <<"mead">>, "alcohol" >>,
       << <<"liqueur">>, "alcohol" >>, << <<"campari">>, "alcohol" >>,
       << <<"aperol">>, "alcohol" >>, << <<"cointreau">>, "alcohol" >>,
       << <<"grand marnier">>, "alcohol" >>,
       << <<"triple sec">>, "alcohol" >>, << <<"limoncello">>, "alcohol" >>,
       << <<"chartreuse">>, "alcohol" >>, << <<"cola">>, "pop" >>,
       << <<"soda">>, "pop" >>, << <<"tonic">>, "pop" >>,
       << <<"sprite">>, "pop" >>, << <<"ginger ale">>, "pop" >>,
       << <<"coffee">>, "beverage" >>, << <<"tea">>, "beverage" >>,
       << <<"broth">>, "beverage" >>, << <<"stock">>, "beverage" >>,
       << <<"water">>, "beverage" >>, << <<"juice">>, "juice" >>,
       << <<"beef">>, "meat" >>, << <<"steak">>, "meat" >>,
       << <<"pork">>, "meat" >>, << <<"bacon">>, "meat" >>,
       << <<"ham">>, "meat" >>, << <<"prosciutto">>, "meat" >>,
       << <<"pancetta">>, "meat" >>, << <<"guanciale">>, "meat" >>,
       << <<"chorizo">>, "meat" >>, << <<"sausage">>, "meat" >>,
       << <<"salami">>, "meat" >>, << <<"pepperoni">>, "meat" >>,
       << <<"lamb">>, "meat" >>, << <<"veal">>, "meat" >>,
       << <<"venison">>, "meat" >>, << <<"bison">>, "meat" >>,
       << <<"rabbit">>, "meat" >>, << <<"lardon">>, "meat" >>,
       << <<"bresaola">>, "meat" >>, << <<"nduja">>, "meat" >>,
       << <<"short ribs">>, "meat" >>, << <<"slab ribs">>, "meat" >>,
       << <<"spare ribs">>, "meat" >>, << <<"beef ribs">>, "meat" >>,
       << <<"pork ribs">>, "meat" >>, << <<"oxtail">>, "meat" >>,
       << <<"tongue">>, "meat" >>, << <<"liver">>, "meat" >>,
       << <<"kidney">>, "meat" >>, << <<"heart">>, "meat" >>,
       << <<"offal">>, "meat" >>, << <<"chicken">>, "poultry" >>,
       << <<"turkey">>, "poultry" >>, << <<"duck">>, "poultry" >>,
       << <<"goose">>, "poultry" >>, << <<"quail">>, "poultry" >>,
       << <<"salmon">>, "seafood" >>, << <<"tuna">>, "seafood" >>,
       << <<"shrimp">>, "seafood" >>, << <<"prawn">>, "seafood" >>,
       << <<"crab">>, "seafood" >>, << <<"lobster">>, "seafood" >>,
       << <<"scallop">>, "seafood" >>, << <<"mussel">>, "seafood" >>,
       << <<"clam">>, "seafood" >>, << <<"oyster">>, "seafood" >>,
       << <<"anchovy">>, "seafood" >>, << <<"sardine">>, "seafood" >>,
       << <<"cod">>, "seafood" >>, << <<"halibut">>, "seafood" >>,
       << <<"tilapia">>, "seafood" >>, << <<"trout">>, "seafood" >>,
       << <<"bass">>, "seafood" >>, << <<"mackerel">>, "seafood" >>,
       << <<"squid">>, "seafood" >>, << <<"calamari">>, "seafood" >>,
       << <<"octopus">>, "seafood" >>, << <<"fish">>, "seafood" >>,
       << <<"seafood">>, "seafood" >>, << <<"crustacean">>, "seafood" >>,
       << <<"egg">>, "egg" >>, << <<"cheese">>, "cheese" >>,
       << <<"cheddar">>, "cheese" >>, << <<"parmesan">>, "cheese" >>,
       << <<"parmigiano">>, "cheese" >>, << <<"mozzarella">>, "cheese" >>,
       << <<"gruyere">>, "cheese" >>, << <<"gruyère">>, "cheese" >>,
       << <<"feta">>, "cheese" >>, << <<"brie">>, "cheese" >>,
       << <<"camembert">>, "cheese" >>, << <<"gouda">>, "cheese" >>,
       << <<"ricotta">>, "cheese" >>, << <<"mascarpone">>, "cheese" >>,
       << <<"pecorino">>, "cheese" >>, << <<"emmental">>, "cheese" >>,
       << <<"havarti">>, "cheese" >>, << <<"provolone">>, "cheese" >>,
       << <<"halloumi">>, "cheese" >>, << <<"burrata">>, "cheese" >>,
       << <<"paneer">>, "cheese" >>, << <<"manchego">>, "cheese" >>,
       << <<"roquefort">>, "cheese" >>, << <<"gorgonzola">>, "cheese" >>,
       << <<"stilton">>, "cheese" >>, << <<"milk">>, "dairy" >>,
       << <<"butter">>, "dairy" >>, << <<"cream">>, "dairy" >>,
       << <<"yogurt">>, "dairy" >>, << <<"yoghurt">>, "dairy" >>,
       << <<"dairy">>, "dairy" >>, << <<"ghee">>, "dairy" >>,
       << <<"rice">>, "grain" >>, << <<"bread">>, "grain" >>,
       << <<"sourdough">>, "grain" >>, << <<"brioche">>, "grain" >>,
       << <<"ciabatta">>, "grain" >>, << <<"focaccia">>, "grain" >>,
       << <<"pita">>, "grain" >>, << <<"naan">>, "grain" >>,
       << <<"baguette">>, "grain" >>, << <<"oat">>, "grain" >>,
       << <<"quinoa">>, "grain" >>, << <<"barley">>, "grain" >>,
       << <<"couscous">>, "grain" >>, << <<"bulgur">>, "grain" >>,
       << <<"millet">>, "grain" >>, << <<"polenta">>, "grain" >>,
       << <<"grits">>, "grain" >>, << <<"breadcrumb">>, "grain" >>,
       << <<"panko">>, "grain" >>, << <<"tortilla">>, "grain" >>,
       << <<"cracker">>, "grain" >>, << <<"cereal">>, "grain" >>,
       << <<"granola">>, "grain" >>, << <<"pasta">>, "pasta" >>,
       << <<"spaghetti">>, "pasta" >>, << <<"penne">>, "pasta" >>,
       << <<"rigatoni">>, "pasta" >>, << <<"linguine">>, "pasta" >>,
       << <<"fettuccine">>, "pasta" >>, << <<"noodle">>, "pasta" >>,
       << <<"lasagna">>, "pasta" >>, << <<"lasagne">>, "pasta" >>,
       << <<"macaroni">>, "pasta" >>, << <<"orzo">>, "pasta" >>,
       << <<"fusilli">>, "pasta" >>, << <<"farfalle">>, "pasta" >>,
       << <<"tagliatelle">>, "pasta" >>, << <<"gnocchi">>, "pasta" >>,
       << <<"ramen">>, "pasta" >>, << <<"udon">>, "pasta" >>,
       << <<"soba">>, "pasta" >>, << <<"vermicelli">>, "pasta" >>,
       << <<"ravioli">>, "pasta" >>, << <<"tortellini">>, "pasta" >>,
       << <<"bean">>, "legume" >>, << <<"lentil">>, "legume" >>,
       << <<"chickpea">>, "legume" >>, << <<"tofu">>, "dairy" >>,
       << <<"tempeh">>, "legume" >>, << <<"edamame">>, "legume" >>,
       << <<"almond">>, "nut" >>, << <<"walnut">>, "nut" >>,
       << <<"pecan">>, "nut" >>, << <<"cashew">>, "nut" >>,
       << <<"pistachio">>, "nut" >>, << <<"peanut">>, "nut" >>,
       << <<"hazelnut">>, "nut" >>, << <<"macadamia">>, "nut" >>,
       << <<"chestnut">>, "nut" >>, << <<"coconut">>, "nut" >>,
       << <<"salt">>, "spice" >>, << <<"pepper">>, "spice" >>,
       << <<"cumin">>, "spice" >>, << <<"paprika">>, "spice" >>,
       << <<"cayenne">>, "spice" >>, << <<"cinnamon">>, "spice" >>,
       << <<"nutmeg">>, "spice" >>, << <<"oregano">>, "spice" >>,
       << <<"turmeric">>, "spice" >>, << <<"coriander">>, "spice" >>,
       << <<"cardamom">>, "spice" >>, << <<"clove">>, "spice" >>,
       << <<"allspice">>, "spice" >>, << <<"saffron">>, "spice" >>,
       << <<"anise">>, "spice" >>, << <<"fennel">>, "spice" >>,
       << <<"]tsaoko">>, "spice" >>, << <<"dill">>, "spice" >>,
       << <<"thyme">>, "spice" >>, << <<"rosemary">>, "spice" >>,
       << <<"sage">>, "spice" >>, << <<"basil">>, "spice" >>,
       << <<"parsley">>, "spice" >>, << <<"cilantro">>, "spice" >>,
       << <<"mint">>, "spice" >>, << <<"tarragon">>, "spice" >>,
       << <<"chive">>, "spice" >>, << <<"bay leaf">>, "spice" >>,
       << <<"bay leaves">>, "spice" >>, << <<"marjoram">>, "spice" >>,
       << <<"five spice">>, "spice" >>, << <<"gochugaru">>, "spice" >>,
       << <<"sumac">>, "spice" >>, << <<"zaatar">>, "spice" >>,
       << <<"za'atar">>, "spice" >>, << <<"lemongrass">>, "spice" >>,
       << <<"fenugreek">>, "spice" >>, << <<"msg">>, "spice" >>,
       << <<"spice">>, "spice" >>, << <<"seasoning">>, "spice" >>,
       << <<"herb">>, "spice" >>, << <<"sauce">>, "condiment" >>,
       << <<"paste">>, "condiment" >>, << <<"marinade">>, "condiment" >>,
       << <<"glaze">>, "condiment" >>, << <<"oil">>, "oil" >>,
       << <<"vinegar">>, "vinegar" >>, << <<"flour">>, "flour" >>,
       << <<"starch">>, "flour" >>, << <<"sugar">>, "sugar" >>,
       << <<"honey">>, "sugar" >>, << <<"syrup">>, "sugar" >>,
       << <<"chocolate">>, "sugar" >>, << <<"candy">>, "sugar" >>,
       << <<"caramel">>, "sugar" >>, << <<"jam">>, "sugar" >>,
       << <<"jelly">>, "sugar" >>, << <<"marmalade">>, "sugar" >>,
       << <<"vanilla">>, "sugar" >>
    >>

(***************************************************************************)
(* OFF CATEGORY -> category heuristic; None is the "skip" target           *)
(***************************************************************************)
OFF_CATEGORY_MAP ==
    <<
       << "plant-based", None >>, << "breakfast cereal", Some("grain") >>,
       << "ice cream", Some("dairy") >>, << "frozen meal", None >>,
       << "ready meal", None >>, << "meat", Some("meat") >>,
       << "ham", Some("meat") >>, << "beef", Some("meat") >>,
       << "pork", Some("meat") >>, << "sausage", Some("meat") >>,
       << "deli", Some("meat") >>, << "poultry", Some("poultry") >>,
       << "chicken", Some("poultry") >>, << "turkey", Some("poultry") >>,
       << "fish", Some("seafood") >>, << "seafood", Some("seafood") >>,
       << "crustacean", Some("seafood") >>, << "cheese", Some("cheese") >>,
       << "dairy", Some("dairy") >>, << "milk", Some("dairy") >>,
       << "butter", Some("dairy") >>, << "cream", Some("dairy") >>,
       << "yogurt", Some("dairy") >>, << "egg", Some("egg") >>,
       << "bread", Some("grain") >>, << "cereal", Some("grain") >>,
       << "rice", Some("grain") >>, << "grain", Some("grain") >>,
       << "pasta", Some("pasta") >>, << "noodle", Some("pasta") >>,
       << "legume", Some("legume") >>, << "bean", Some("legume") >>,
       << "lentil", Some("legume") >>, << "nut", Some("nut") >>,
       << "seed", Some("nut") >>, << "spice", Some("spice") >>,
       << "herb", Some("spice") >>, << "seasoning", Some("spice") >>,
       << "sauce", Some("condiment") >>,
       << "condiment", Some("condiment") >>,
       << "dressing", Some("condiment") >>,
       << "mustard", Some("condiment") >>,
       << "ketchup", Some("condiment") >>, << "oil", Some("oil") >>,
       << "vinegar", Some("vinegar") >>, << "flour", Some("flour") >>,
       << "sugar", Some("sugar") >>, << "sweetener", Some("sugar") >>,
       << "honey", Some("sugar") >>, << "syrup", Some("sugar") >>,
       << "chocolate", Some("sugar") >>, << "candy", Some("sugar") >>,
       << "confectionery", Some("sugar") >>,
       << "baking", Some("leavening") >>, << "alcohol", Some("alcohol") >>,
       << "wine", Some("alcohol") >>, << "beer", Some("alcohol") >>,
       << "spirit", Some("alcohol") >>, << "soda", Some("pop") >>,
       << "soft drink", Some("pop") >>, << "juice", Some("juice") >>,
       << "coffee", Some("beverage") >>, << "tea", Some("beverage") >>,
       << "water", Some("beverage") >>, << "beverage", Some("beverage") >>,
       << "drink", Some("beverage") >>, << "snack", None >>,
       << "frozen", None >>, << "canned", None >>
    >>

(***************************************************************************)
(* The matchers and the ingredient filter                                  *)
(***************************************************************************)
\* all(kw in name for kw in keywords)
RuleMatches_exact(keywords, text) ==
    \A j \in DOMAIN keywords : keywords[j] = text

RuleMatches(keywords, text) ==
    \A j \in DOMAIN keywords : Contains(text, keywords[j])

\* (variant: the last matching rule wins)
RECURSIVE name_scan_last(_, _, _)
name_scan_last(text, lo, hi) ==
    IF lo > hi THEN [found |-> FALSE, result |-> None, examined |-> 0]
    ELSE IF lo = hi
    THEN IF RuleMatches(KEYWORD_RULES[lo][1], text)
         THEN [found |-> TRUE, result |-> Some(KEYWORD_RULES[lo][2]), examined |-> 1]
         ELSE [found |-> FALSE, result |-> None, examined |-> 1]
    ELSE LET mid == (lo + hi) \div 2
             first == name_scan_last(text, lo, mid)
             rest == name_scan_last(text, mid + 1, hi)
         IN  IF rest.found THEN [rest EXCEPT !.examined = first.examined + @]
             ELSE [first EXCEPT !.examined = @ + rest.examined]

\* The for loop of classify_by_name over rules lo..hi, in table order: whether
\* it returned, the value returned and the number of rules it tested.  The
\* range is halved so that the evaluation depth is logarithmic; the left half
\* is scanned first and the right half only when the left did not return.
RECURSIVE name_scan(_, _, _)
name_scan(text, lo, hi) ==
    IF lo > hi THEN [found |-> FALSE, result |-> None, examined |-> 0]
    ELSE IF lo = hi
    THEN IF RuleMatches(KEYWORD_RULES[lo][1], text)
         THEN [found |-> TRUE, result |-> Some(KEYWORD_RULES[lo][2]), examined |-> 1]
         ELSE [found |-> FALSE, result |-> None, examined |-> 1]
    ELSE LET mid == (lo + hi) \div 2
             first == name_scan(text, lo, mid)
         IN  IF first.found THEN first
             ELSE LET rest == name_scan(text, mid + 1, hi)
                  IN  [rest EXCEPT !.examined = first.examined + @]

name_run(text) == name_scan(text, 1, Len(KEYWORD_RULES))

classify_by_name(text) == name_run(text).result

\* (variant: a rule whose target is None is passed over and the scan goes on)
RECURSIVE off_scan_skipping(_, _, _)
off_scan_skipping(text, lo, hi) ==
    IF lo > hi THEN [found |-> FALSE, result |-> None, examined |-> 0]
    ELSE IF lo = hi
    THEN IF Contains(text, OFF_CATEGORY_MAP[lo][1]) /\ OFF_CATEGORY_MAP[lo][2] # None
         THEN [found |-> TRUE, result |-> OFF_CATEGORY_MAP[lo][2], examined |-> 1]
         ELSE [found |-> FALSE, result |-> None, examined |-> 1]
    ELSE LET mid == (lo + hi) \div 2
             first == off_scan_skipping(text, lo, mid)
         IN  IF first.found THEN first
             ELSE LET rest == off_scan_skipping(text, mid + 1, hi)
                  IN  [rest EXCEPT !.examined = first.examined + @]

\* The for loop of classify_by_off_category over rules lo..hi, in table order.
RECURSIVE off_scan(_, _, _)
off_scan(text, lo, hi) ==
    IF lo > hi THEN [found |-> FALSE, result |-> None, examined |-> 0]
    ELSE IF lo = hi
    THEN IF Contains(text, OFF_CATEGORY_MAP[lo][1])
         THEN [found |-> TRUE, result |-> OFF_CATEGORY_MAP[lo][2], examined |-> 1]
         ELSE [found |-> FALSE, result |-> None, examined |-> 1]
    ELSE LET mid == (lo + hi) \div 2
             first == off_scan(text, lo, mid)
         IN  IF first.found THEN first
             ELSE LET rest == off_scan(text, mid + 1, hi)
                  IN  [rest EXCEPT !.examined = first.examined + @]

\* (variant: no early return for empty text)
off_category_run_unguarded(text) == off_scan(text, 1, Len(OFF_CATEGORY_MAP))

\* classify_by_off_category with the number of rules it tested
off_category_run(text) ==
    IF text = "" THEN [found |-> FALSE, result |-> None, examined |-> 0]
    ELSE off_scan(text, 1, Len(OFF_CATEGORY_MAP))

classify_by_off_category(text) == off_category_run(text).result

MaxNameLen == 60

skip_words ==
    << "pizza", "sandwich", "burger", "wrap", "meal kit", "ready to eat",
       "frozen dinner", "tv dinner", "microwave", "instant", "protein bar",
       "energy bar", "snack bar", "chips", "crisps", "cookie", "biscuit",
       "crouton", "popcorn", "pretzel" >>

RECURSIVE skip_scan(_, _)
skip_scan(text, k) ==
    IF k > Len(skip_words) THEN TRUE
    ELSE IF Contains(text, skip_words[k]) THEN FALSE
         ELSE skip_scan(text, k + 1)

\* (variant: a name of exactly MaxNameLen characters is rejected too)
is_culinary_ingredient_ge(text, category_text, tags_text) ==
    IF Len(text) >= MaxNameLen THEN FALSE
    ELSE IF HasDigitRun(text) THEN FALSE
         ELSE skip_scan(text, 1)

\* (variant: the skip words are not consulted)
is_culinary_ingredient_no_skip_words(text, category_text, tags_text) ==
    IF Len(text) > MaxNameLen THEN FALSE
    ELSE IF HasDigitRun(text) THEN FALSE
         ELSE TRUE

is_culinary_ingredient(text, category_text, tags_text) ==
    IF Len(text) > MaxNameLen THEN FALSE
    ELSE IF HasDigitRun(text) THEN FALSE
         ELSE skip_scan(text, 1)

(***************************************************************************)
(* build_database: one iteration of the row loop                           *)
(***************************************************************************)
\* row.get(key, '')
get(r, key) == IF key \in DOMAIN r THEN r[key] ELSE Some("")

\* cell or ''
or_empty(cell) == IF cell = None \/ cell = Some("") THEN "" ELSE cell[1]

(***************************************************************************)
(* float(text) and round(...).  A float is a record: kind "nan", "inf" or  *)
(* "finite"; a finite value is units / 10^places with its sign kept apart  *)
(* (so that -0.0 stays negative).  The texts read here have no exponent    *)
(* and no underscore.                                                      *)
(***************************************************************************)
RECURSIVE Pow10(_)
Pow10(n) == IF n = 0 THEN 1 ELSE 10 * Pow10(n - 1)

IsDigits(s) == \A p \in 1..Len(s) : IsDigit(CharAt(s, p))

DigitValue(c) == CHOOSE d \in 0..9 : CharAt("0123456789", d + 1) = c

\* the number a string of digits denotes (0 for the empty string)
RECURSIVE Number(_)
Number(s) ==
    IF Len(s) = 0 THEN 0
    ELSE 10 * Number(SubSeq(s, 1, Len(s) - 1)) + DigitValue(CharAt(s, Len(s)))

Float(kind, neg, units, places) ==
    [kind |-> kind, neg |-> neg, units |-> units, places |-> places]

\* float(text) of an unsigned text: a float, or None for ValueError
float_unsigned(s, neg) ==
    IF lower(s) \in {"inf", "infinity"} THEN Some(Float("inf", neg, 0, 0))
    ELSE IF lower(s) = "nan" THEN Some(Float("nan", neg, 0, 0))
    ELSE IF s # "" /\ IsDigits(s) THEN Some(Float("finite", neg, Number(s), 0))
    ELSE IF \E p \in 1..Len(s) :
               /\ CharAt(s, p) = "."
               /\ Len(s) > 1
               /\ IsDigits(SubSeq(s, 1, p - 1))
               /\ IsDigits(SubSeq(s, p + 1, Len(s)))
    THEN LET p == CHOOSE q \in 1..Len(s) : CharAt(s, q) = "."
         IN  Some(Float("finite", neg,
                        Number(SubSeq(s, 1, p - 1) \o SubSeq(s, p + 1, Len(s))),
                        Len(s) - p))
    ELSE None

\* float(text): white space around the number and one sign are accepted
float(text) ==
    IF strip(text) = "" THEN None
    ELSE IF CharAt(strip(text), 1) = "-"
    THEN float_unsigned(SubSeq(strip(text), 2, Len(strip(text))), TRUE)
    ELSE IF CharAt(strip(text), 1) = "+"
    THEN float_unsigned(SubSeq(strip(text), 2, Len(strip(text))), FALSE)
    ELSE float_unsigned(strip(text), FALSE)

\* units / 10^drop rounded to an integer, a tie going to the even neighbour
RoundHalfEven(units, drop) ==
    IF 2 * (units % Pow10(drop)) > Pow10(drop) THEN units \div Pow10(drop) + 1
    ELSE IF 2 * (units % Pow10(drop)) < Pow10(drop) THEN units \div Pow10(drop)
    ELSE IF (units \div Pow10(drop)) % 2 = 0 THEN units \div Pow10(drop)
    ELSE units \div Pow10(drop) + 1

\* round(x): an int, or the exception raised (nan: ValueError, inf: OverflowError)
round_int(x) ==
    IF x.kind = "nan" THEN [raises |-> "ValueError"]
    ELSE IF x.kind = "inf" THEN [raises |-> "OverflowError"]
    ELSE [raises |-> "none",
          value  |-> (IF x.neg THEN -1 ELSE 1) * RoundHalfEven(x.units, x.places)]

\* round(x, ndigits): a float; nan and inf stay as they are.  The texts read
\* here have no tie at the digit rounded to (such a tie is decided by the
\* binary value of the float).
round_places(x, ndigits) ==
    IF x.kind # "finite" THEN x
    ELSE IF x.places <= ndigits
    THEN Float("finite", x.neg, x.units * Pow10(ndigits - x.places), ndigits)
    ELSE Float("finite", x.neg, RoundHalfEven(x.units, x.places - ndigits), ndigits)

\* row.get(column, ''), a text ('' for None: both are skipped by "if value:")
nutrition_text(r, column) == IF get(r, column) = None THEN "" ELSE get(r, column)[1]

\* the "kcal" statement: what it raises out of the iteration ("none" when it
\* raises nothing or the exception is ValueError) and the key it sets
kcal_run(r) ==
    IF nutrition_text(r, "energy-kcal_100g") = "" THEN [raises |-> "none", part |-> << >>]
    ELSE IF float(nutrition_text(r, "energy-kcal_100g")) = None
    THEN [raises |-> "none", part |-> << >>]
    ELSE IF round_int(float(nutrition_text(r, "energy-kcal_100g"))[1]).raises = "ValueError"
    THEN [raises |-> "none", part |-> << >>]
    ELSE IF round_int(float(nutrition_text(r, "energy-kcal_100g"))[1]).raises = "OverflowError"
    THEN [raises |-> "OverflowError", part |-> << >>]
    ELSE [raises |-> "none",
          part |-> ("kcal" :>
                    round_int(float(nutrition_text(r, "energy-kcal_100g"))[1]).value)]

\* one of the five statements that round to ndigits places: the key it sets
nutrient(r, column, key, ndigits) ==
    IF nutrition_text(r, column) = "" THEN << >>
    ELSE IF float(nutrition_text(r, column)) = None THEN << >>
    ELSE (key :> round_places(float(nutrition_text(r, column))[1], ndigits))

\* the exception the metadata statements raise out of the iteration, or "none"
metadata_raises(r) == kcal_run(r).raises

metadata_both_flags(r, cat_index) ==
    LET labels    == lower(or_empty(get(r, "labels_en")))
        allergens == strip(or_empty(get(r, "allergens_en")))
        dietary   == (IF Contains(labels, "vegan") THEN ("vegan" :> TRUE) ELSE << >>)
                     @@ (IF Contains(labels, "vegetarian")
                         THEN ("vegetarian" :> TRUE) ELSE << >>)
        allergy   == IF allergens # "" THEN ("allergens" :> allergens) ELSE << >>
    IN  ("cat" :> cat_index) @@ dietary @@ allergy
            @@ kcal_run(r).part
            @@ nutrient(r, "proteins_100g", "protein", 1)
            @@ nutrient(r, "carbohydrates_100g", "carbs", 1)
            @@ nutrient(r, "fat_100g", "fat", 1)
            @@ nutrient(r, "fiber_100g", "fiber", 1)
            @@ nutrient(r, "sodium_100g", "sodium", 3)

\* The metadata record of a classified row whose metadata statements raise
\* nothing: "cat", at most one of "vegan" and "vegetarian", "allergens" when
\* the stripped text is not empty, and the nutrition keys that parse.
metadata(r, cat_index) ==
    LET labels    == lower(or_empty(get(r, "labels_en")))
        allergens == strip(or_empty(get(r, "allergens_en")))
        dietary   == IF Contains(labels, "vegan") THEN ("vegan" :> TRUE)
                     ELSE IF Contains(labels, "vegetarian") THEN ("vegetarian" :> TRUE)
                     ELSE << >>
        allergy   == IF allergens # "" THEN ("allergens" :> allergens) ELSE << >>
    IN  ("cat" :> cat_index) @@ dietary @@ allergy
            @@ kcal_run(r).part
            @@ nutrient(r, "proteins_100g", "protein", 1)
            @@ nutrient(r, "carbohydrates_100g", "carbs", 1)
            @@ nutrient(r, "fat_100g", "fat", 1)
            @@ nutrient(r, "fiber_100g", "fiber", 1)
            @@ nutrient(r, "sodium_100g", "sodium", 3)

\* (variant: only the empty name is skipped)
too_short_empty_only(n) == n = ""

\* not name or len(name) < 2
too_short(n) == n = "" \/ Len(n) < 2

\* (variant: the tags are consulted before the category field)
resolve_tags_first(n, o, t) ==
    LET by_name == classify_by_name(n)
        by_tags == IF by_name = None THEN classify_by_off_category(t) ELSE by_name
        by_cat  == IF by_tags = None THEN classify_by_off_category(o) ELSE by_tags
    IN  [cat   |-> by_cat,
         calls |-> << <<"classify_by_name", n>> >>
                   \o (IF by_name = None
                       THEN << <<"classify_by_off_category", t>> >> ELSE << >>)
                   \o (IF by_tags = None
                       THEN << <<"classify_by_off_category", o>> >> ELSE << >>)]

\* The classification priority of an accepted row: the name rules, then the
\* OFF category field, then the OFF tags.  Returns the category (or None) and
\* the matcher calls made, in order.
resolve(n, o, t) ==
    LET by_name == classify_by_name(n)
        by_cat  == IF by_name = None THEN classify_by_off_category(o) ELSE by_name
        by_tags == IF by_cat = None THEN classify_by_off_category(t) ELSE by_cat
    IN  [cat   |-> by_tags,
         calls |-> << <<"classify_by_name", n>> >>
                   \o (IF by_name = None
                       THEN << <<"classify_by_off_category", o>> >> ELSE << >>)
                   \o (IF by_cat = None
                       THEN << <<"classify_by_off_category", t>> >> ELSE << >>)]

\* What one iteration computes from its row: the locals it assigns ("bound"
\* lists them), the functions it calls in order, and how it ends.
iteration(r) ==
    LET n == strip(lower(or_empty(get(r, "product_name"))))
        o == lower(or_empty(get(r, "main_category_en")))
        t == lower(or_empty(get(r, "categories_tags")))
        filter_call == << <<"is_culinary_ingredient", n, o, t>> >>
        res == resolve(n, o, t)
        all == {"name", "off_cat", "tags", "cat"}
    IN  IF too_short(n)
        THEN [outcome |-> "filtered", bound |-> {"name"}, name |-> n, calls |-> << >>]
        ELSE IF ~is_culinary_ingredient(n, o, t)
        THEN [outcome |-> "filtered", bound |-> {"name", "off_cat", "tags"},
              name |-> n, off_cat |-> o, tags |-> t, calls |-> filter_call]
        ELSE IF res.cat = None
        THEN [outcome |-> "unclassified", bound |-> all, name |-> n, off_cat |-> o,
              tags |-> t, cat |-> res.cat, calls |-> filter_call \o res.calls]
        ELSE IF CatIndex(res.cat[1]) = UNKNOWN
        THEN [outcome |-> "unclassified", bound |-> all, name |-> n, off_cat |-> o,
              tags |-> t, cat |-> res.cat, calls |-> filter_call \o res.calls]
        ELSE [outcome |-> "classified", bound |-> all, name |-> n, off_cat |-> o,
              tags |-> t, cat |-> res.cat, calls |-> filter_call \o res.calls,
              cat_index |-> CatIndex(res.cat[1]),
              meta_raises |-> metadata_raises(r),
              meta |-> metadata(r, CatIndex(res.cat[1]))]

(***************************************************************************)
(* The rows a run may read                                                 *)
(***************************************************************************)
MaxRows == 2

LongName == "abcdefghijklmnopqrstuvwxyzabcd abcdefghijklmnopqrstuvwxyzabcd"

NameCells ==
    { None, Some(" A "), Some("  Cola "), Some("Miso"), Some("xyz"),
      Some("pizza margherita"), Some("generic snack mix 12345678"),
      Some(LongName) }

CategoryCells == { None, Some(""), Some("Dairy"), Some("Plant-based milk") }

TagCells == { Some(""), Some("en:beverages"), Some("en:snacks") }

NutritionColumns ==
    { "energy-kcal_100g", "proteins_100g", "carbohydrates_100g", "fat_100g",
      "fiber_100g", "sodium_100g" }

NutritionCells ==
    { None, Some(""), Some("abc"), Some("12.34"), Some(" 2.5 "), Some("nan"),
      Some("inf"), Some("-0.0476") }

\* rows with the six nutrition columns: one column takes each cell, the other
\* five hold "12.34"
NutritionRows ==
    {[k \in {"product_name"} \cup NutritionColumns |->
         IF k = "product_name" THEN Some("Tofu")
         ELSE IF k = column THEN cell ELSE Some("12.34")] :
        column \in NutritionColumns, cell \in NutritionCells}

LabelCells ==
    { None, Some(""), Some("Organic"), Some("Vegetarian"), Some("Vegan"),
      Some("Vegetarian, Vegan") }

\* rows with a dietary-label column
LabelRows == {[product_name |-> Some("Tofu"), labels_en |-> l] : l \in LabelCells}

Rows ==
    {[product_name |-> n, main_category_en |-> o, categories_tags |-> t] :
        n \in NameCells, o \in CategoryCells, t \in TagCells}
    \cup {[main_category_en |-> Some("Dairy")]}
    \cup {[product_name |-> Some("Tofu"), labels_en |-> Some("Vegan, Vegetarian"),
           allergens_en |-> Some(" Soybeans ")]}
    \cup NutritionRows
    \cup LabelRows

\* iteration, tabulated over the rows (an iteration reads its row and nothing
\* else, so the table is computed once)
Iterations == [r \in Rows |-> iteration(r)]

\* dict[key] = value
Put_keep_first(dict, key, value) ==
    [k \in DOMAIN dict \cup {key} |-> IF k \in DOMAIN dict THEN dict[k] ELSE value]

Put(dict, key, value) ==
    [k \in DOMAIN dict \cup {key} |-> IF k = key THEN value ELSE dict[k]]

EmptyDict == [k \in {} |-> 0]

(***************************************************************************)
(* build_database                                                          *)
(***************************************************************************)
\* parse_multirow_csv has not been called
CsvNotCalled ==
    /\ csv_pc = "start"
    /\ headers = << >>
    /\ recipes = << >>
    /\ current_recipe = None
    /\ current_cuisine = None
    /\ current_subcategory = None
    /\ rows_read = << >>

Init ==
    /\ CsvNotCalled
    /\ pc = "start"
    /\ file_exists \in BOOLEAN
    /\ generate_meta \in BOOLEAN
    /\ category_db = EmptyDict
    /\ meta_db = IF generate_meta THEN Some(EmptyDict) ELSE None
    /\ skipped = 0
    /\ classified = 0
    /\ unclassified = 0
    /\ i = 0
    /\ row = None
    /\ name = None
    /\ off_cat = None
    /\ tags = None
    /\ cat = None
    /\ calls = << >>
    /\ outcome = "none"
    /\ written = << >>
    /\ log = << >>
    /\ arg = ""
    /\ ret = NoCall

Open_unchecked ==
    /\ pc = "start"
    /\ pc' = "rows"
    /\ UNCHANGED << file_exists, generate_meta, category_db, meta_db, skipped,
                    classified, unclassified, i, row, name, off_cat, tags, cat,
                    calls, outcome, written, log, arg, ret, csv_vars >>

\* os.path.exists(file_path): report and return, or start reading
Open ==
    /\ pc = "start"
    /\ pc' = IF file_exists THEN "rows" ELSE "returned"
    /\ UNCHANGED << file_exists, generate_meta, category_db, meta_db, skipped,
                    classified, unclassified, i, row, name, off_cat, tags, cat,
                    calls, outcome, written, log, arg, ret, csv_vars >>

count_stuck(counter, hit) == counter

count_twice(counter, hit) == IF hit THEN counter + 2 ELSE counter

\* "counter += 1" on the path of the iteration that reaches it
count(counter, hit) == IF hit THEN counter + 1 ELSE counter

category_write_first(db, it) ==
    IF it.outcome = "classified" /\ it.name \notin DOMAIN db
    THEN Put(db, it.name, it.cat_index) ELSE db

category_write_unknown(db, it) ==
    IF it.outcome = "classified" THEN Put(db, it.name, it.cat_index)
    ELSE IF it.outcome = "unclassified" THEN Put(db, it.name, UNKNOWN)
    ELSE db

\* "category_db[name] = cat_index", which only a classified row reaches
category_write(db, it) ==
    IF it.outcome = "classified" THEN Put(db, it.name, it.cat_index) ELSE db

\* One iteration of "for i, row in enumerate(reader)".  An exception that no
\* handler of the iteration catches leaves build_database: the statements
\* before it have run, the ones after it and the rest of the function have not.
ProcessRow ==
    /\ pc = "rows"
    /\ i < MaxRows
    /\ \E r \in Rows :
        \E it \in {Iterations[r]} :
          \E raises \in {/\ it.outcome = "classified"
                         /\ meta_db # None
                         /\ it.meta_raises # "none"} :
            /\ row' = r
            /\ i' = i + 1
            /\ name' = it.name
            /\ off_cat' = IF "off_cat" \in it.bound THEN it.off_cat ELSE off_cat
            /\ tags' = IF "tags" \in it.bound THEN it.tags ELSE tags
            /\ cat' = IF "cat" \in it.bound THEN it.cat ELSE cat
            /\ calls' = it.calls
            /\ outcome' = IF raises THEN "raised" ELSE it.outcome
            /\ pc' = IF raises THEN "raised" ELSE pc
            /\ log' = Append(log, [name |-> it.name, outcome |-> it.outcome,
                                   cat |-> IF it.outcome = "classified"
                                           THEN Some(it.cat_index) ELSE None,
                                   meta |-> IF /\ it.outcome = "classified"
                                               /\ it.meta_raises = "none"
                                            THEN Some(it.meta) ELSE None])
            /\ skipped' = count(skipped, it.outcome = "filtered")
            /\ unclassified' = count(unclassified, it.outcome = "unclassified")
            /\ classified' = count(classified, it.outcome = "classified")
            /\ category_db' = category_write(category_db, it)
            /\ meta_db' =
                   IF it.outcome = "classified" /\ meta_db # None /\ ~raises
                   THEN Some(Put(meta_db[1], it.name, it.meta)) ELSE meta_db
    /\ UNCHANGED << file_exists, generate_meta, written, arg, ret, csv_vars >>

\* the reader is exhausted: the summary is printed and the artifacts written
Finish ==
    /\ pc = "rows"
    /\ pc' = "done"
    /\ written' =
           written \o << [path |-> "ingredients_json.gz", data |-> category_db] >>
                   \o (IF meta_db # None
                       THEN << [path |-> "ingredients_meta.gz", data |-> meta_db[1]] >>
                       ELSE << >>)
    /\ UNCHANGED << file_exists, generate_meta, category_db, meta_db, skipped,
                    classified, unclassified, i, row, name, off_cat, tags, cat,
                    calls, outcome, log, arg, ret, csv_vars >>

Next == Open \/ ProcessRow \/ Finish

Spec == Init /\ [][Next]_vars

(***************************************************************************)
(* Function-level checks: a text is drawn, the functions are applied to it *)
(***************************************************************************)
MaxWords == 2

Vocabulary ==
    { "extra virgin", "olive", "oil", "olive oil", "serum", "drum", "rum",
      "miso", "cola", "pizza", "1234", "12345", "plant-based", "milk", "snack",
      "frozen", "fish", "sun-dried tomato in", "xyz",
      "abcdefghijklmnopqrstuvwxyzabc", "abcdefghijklmnopqrstuvwxyzabcd" }

\* the texts of at most n words of the vocabulary, separated by one space
RECURSIVE Texts(_)
Texts(n) ==
    IF n = 0 THEN {""}
    ELSE LET shorter == Texts(n - 1)
         IN  shorter \cup Vocabulary
                 \cup {t \o " " \o w : t \in shorter \ {""}, w \in Vocabulary}

FnInputs == Texts(MaxWords)

InitFn ==
    /\ CsvNotCalled
    /\ arg \in FnInputs
    /\ ret = NoCall
    /\ pc = "start" /\ file_exists = TRUE /\ generate_meta = FALSE
    /\ category_db = EmptyDict /\ meta_db = None
    /\ skipped = 0 /\ classified = 0 /\ unclassified = 0 /\ i = 0
    /\ row = None /\ name = None /\ off_cat = None /\ tags = None /\ cat = None
    /\ calls = << >> /\ outcome = "none" /\ written = << >> /\ log = << >>

Frame == UNCHANGED << pc, file_exists, generate_meta, category_db, meta_db, skipped,
           classified, unclassified, i, row, name, off_cat, tags, cat, calls,
           outcome, written, log, arg, csv_vars >>

CallClassifyByName ==
    /\ ret = NoCall
    /\ ret' = [fn |-> "classify_by_name", run |-> name_run(arg)]
    /\ Frame

CallClassifyByOffCategory ==
    /\ ret = NoCall
    /\ ret' = [fn |-> "classify_by_off_category", run |-> off_category_run(arg)]
    /\ Frame

CallIsCulinaryIngredient ==
    /\ ret = NoCall
    /\ \E o \in {"", "dairy"}, t \in {"", "en:snacks"} :
           ret' = [fn |-> "is_culinary_ingredient", off_cat |-> o, tags |-> t,
                   val |-> is_culinary_ingredient(arg, o, t)]
    /\ Frame

\* the category names the lookup is applied to: listed ones, "unknown" itself
\* and names that are not in the list
LookupNames == { "produce", "pantry", "unknown", "snack", "Produce", "" }

\* "cat_index = CAT.get(cat, UNKNOWN)" and the test that follows it, for a
\* category name: the ordinal, and whether the row goes on to be stored
CallCatGet ==
    /\ ret = NoCall
    /\ \E c \in LookupNames :
           ret' = [fn |-> "CAT.get", cat |-> c, val |-> CatIndex(c),
                   outcome |-> IF CatIndex(c) = UNKNOWN
                               THEN "unclassified" ELSE "classified"]
    /\ Frame

NextFn ==
    \/ CallClassifyByName
    \/ CallClassifyByOffCategory
    \/ CallIsCulinaryIngredient
    \/ CallCatGet

SpecFn == InitFn /\ [][NextFn]_vars

(***************************************************************************)
(* sheets_to_json.py: parse_multirow_csv, the second definition of the     *)
(* name, which is the one the module keeps.  The cells read here hold no   *)
(* line break and the header rows have no "ingredients" column.  Of the    *)
(* recipe record the fields uuid, course, sourceUrl, imageUrl, tags and    *)
(* version are left out: they do not depend on what the parser has read    *)
(* before.                                                                 *)
(***************************************************************************)
\* str.startswith
StartsWith(s, prefix) == Len(s) >= Len(prefix) /\ SubSeq(s, 1, Len(prefix)) = prefix

\* str.split(sep), for a separator that is not empty
RECURSIVE split(_, _)
split(s, sep) ==
    IF ~Contains(s, sep) THEN << s >>
    ELSE LET at == CHOOSE q \in 1..(Len(s) - Len(sep) + 1) :
                      /\ SubSeq(s, q, q + Len(sep) - 1) = sep
                      /\ \A m \in 1..(q - 1) : SubSeq(s, m, m + Len(sep) - 1) # sep
         IN  << SubSeq(s, 1, at - 1) >> \o split(SubSeq(s, at + Len(sep), Len(s)), sep)

\* len(s.split()): the number of words white space separates
WordCount(s) ==
    Cardinality({q \in 1..Len(s) :
                    /\ ~IsSpace(CharAt(s, q))
                    /\ q = 1 \/ IsSpace(CharAt(s, q - 1))})

\* str.lstrip(chars) and str.rstrip(chars)
RECURSIVE lstrip_chars(_, _)
lstrip_chars(s, chars) ==
    IF Len(s) > 0 /\ CharAt(s, 1) \in chars
    THEN lstrip_chars(SubSeq(s, 2, Len(s)), chars) ELSE s

RECURSIVE rstrip_chars(_, _)
rstrip_chars(s, chars) ==
    IF Len(s) > 0 /\ CharAt(s, Len(s)) \in chars
    THEN rstrip_chars(SubSeq(s, 1, Len(s) - 1), chars) ELSE s

NotEmpty(t) == t # ""

\* "text.strip() or None"
strip_or_none(text) == IF strip(text) = "" THEN None ELSE Some(strip(text))

\* dict.get(key, default)
dict_get(d, key, default) == IF key \in DOMAIN d THEN d[key] ELSE default

parse_pairs_with(text) ==
    IF strip(text) = "" THEN << >>
    ELSE SelectSeq([k \in DOMAIN split(text, ",") |-> strip(split(text, ",")[k])],
                   NotEmpty)

parse_directions_column(text) ==
    IF strip(text) = "" THEN << >>
    ELSE IF Contains(text, "- ")
    THEN SelectSeq([k \in DOMAIN split(text, "- ") |->
                       strip(rstrip_chars(strip(split(text, "- ")[k]), {"-"}))],
                   NotEmpty)
    ELSE SelectSeq(<< strip(text) >>, NotEmpty)

\* parse_standard_recipe(row, course, cuisine, subcategory): None, or the recipe
parse_standard_recipe(r, cuisine, subcategory) ==
    IF strip(dict_get(r, "name", dict_get(r, "Name", ""))) = "" THEN None
    ELSE Some([name        |-> strip(dict_get(r, "name", dict_get(r, "Name", ""))),
               cuisine     |-> cuisine,
               subcategory |-> subcategory,
               serves      |-> strip_or_none(dict_get(r, "serves", dict_get(r, "Serves", ""))),
               time        |-> strip_or_none(dict_get(r, "time", dict_get(r, "Time", ""))),
               pairsWith   |-> parse_pairs_with(
                                   dict_get(r, "pairs_with",
                                       dict_get(r, "Pairs With",
                                           dict_get(r, "pairsWith", "")))),
               notes       |-> strip_or_none(dict_get(r, "notes", dict_get(r, "Notes", ""))),
               ingredients |-> << >>,
               directions  |-> parse_directions_column(
                                   dict_get(r, "directions", dict_get(r, "Directions", "")))])

\* "headers = [h.lower().strip() for h in headers]"
normalize_headers(hs) == [k \in DOMAIN hs |-> strip(lower(hs[k]))]

\* "{headers[i]: row[i] if i < len(row) else '' for i in range(len(headers))}":
\* of two columns with one header the later one is kept
row_dict(hs, cells) ==
    [h \in {hs[k] : k \in DOMAIN hs} |->
        LET last == CHOOSE k \in DOMAIN hs :
                        hs[k] = h /\ \A m \in DOMAIN hs : hs[m] = h => m <= k
        IN  IF last <= Len(cells) THEN cells[last] ELSE ""]

\* "not row or all(not cell.strip() for cell in row)"
blank_row(cells) == \A k \in DOMAIN cells : strip(cells[k]) = ""

subcategory_headers ==
    { "European", "Asian", "Latin American", "Middle Eastern", "African" }

\* the ingredient an ingredient row is parsed as
ingredient_of(r, cells, name_col) ==
    LET notes == strip(dict_get(r, "notes", ""))
        alt   == notes # "" /\ StartsWith(lower(notes), "alt:")
        preparation == IF alt THEN None ELSE strip_or_none(dict_get(r, "notes", ""))
    IN  [name        |-> name_col,
         amount      |-> strip_or_none(dict_get(r, "serves",
                                           IF Len(cells) > 1 THEN cells[2] ELSE "")),
         preparation |-> preparation,
         alternative |-> IF alt THEN Some(notes) ELSE None,
         isOptional  |-> Contains(lower(IF preparation = None THEN "" ELSE preparation[1]),
                                  "optional"),
         section     |-> None]

\* the current recipe after an ingredient row
with_ingredient(recipe, r, cells, name_col) ==
    [recipe EXCEPT
        !.ingredients = Append(@, ingredient_of(r, cells, name_col)),
        !.directions =
            IF /\ strip(dict_get(r, "directions", "")) # ""
               /\ StartsWith(strip(dict_get(r, "directions", "")), "-")
            THEN Append(@, strip(lstrip_chars(strip(dict_get(r, "directions", "")),
                                              {"-", " "})))
            ELSE @]

\* One iteration of "for row in reader": what the row is taken for and the
\* locals after it.
csv_iteration(hs, cells, recs, recipe, cuisine, subcategory) ==
    LET r          == row_dict(hs, cells)
        name_col   == strip(dict_get(r, "name", IF cells # << >> THEN cells[1] ELSE ""))
        serves     == strip(dict_get(r, "serves", ""))
        time       == strip(dict_get(r, "time", ""))
        directions == strip(dict_get(r, "directions", ""))
        pairs      == strip(dict_get(r, "pairs with", dict_get(r, "pairs_with", "")))
        bare       == name_col # "" /\ serves = "" /\ time = "" /\ directions = ""
        after(kind, recs2, recipe2, cuisine2, subcategory2) ==
            [kind |-> kind, recipes |-> recs2, current_recipe |-> recipe2,
             current_cuisine |-> cuisine2, current_subcategory |-> subcategory2]
    IN  IF cells = << >> \/ blank_row(cells)
        THEN after("blank", recs, recipe, cuisine, subcategory)
        ELSE IF bare /\ name_col \in subcategory_headers
        THEN after("subcategory", recs, recipe, cuisine, Some(name_col))
        ELSE IF bare /\ WordCount(name_col) <= 2 /\ Contains(UpperCase, CharAt(name_col, 1))
        THEN after("cuisine", recs, recipe, Some(name_col), subcategory)
        ELSE IF name_col # "" /\ (serves # "" \/ time # "" \/ pairs # "")
        THEN after("recipe", IF recipe # None THEN Append(recs, recipe[1]) ELSE recs,
                   parse_standard_recipe(r, cuisine, subcategory), cuisine, subcategory)
        ELSE IF recipe # None /\ name_col # ""
        THEN after("ingredient", recs,
                   Some(with_ingredient(recipe[1], r, cells, name_col)),
                   cuisine, subcategory)
        ELSE after("ignored", recs, recipe, cuisine, subcategory)

MaxCsvRows == 3

\* the header rows of the files read
HeaderRows ==
    { << "Name", "Serves", "Time", "Pairs With", "Notes", "Directions" >>,
      << " name ", "Amount", "Time", "pairs_with", "Notes" >>,
      << "Recipe", "Serves", "Time" >> }

\* the rows of the files read
CsvRows ==
    { << >>,
      << "", " ", "", "", "", "" >>,
      << "Asian" >>,
      << "Korean", "", "", "", "", "" >>,
      << "Bread", "4", "1h", "Wine, Beer", "", "- Mix - Bake" >>,
      << "Soup", "", "30m" >>,
      << "Kimchi", "", "", "Rice", "", "" >>,
      << "kimchi stew base", "", "", "Rice", "", "" >>,
      << "flour", "2 cups", "", "", "", "" >>,
      << "salt", "", "", "", "optional", "" >>,
      << "Butter", "", "", "", "", "" >>,
      << "yeast", "", "", "", "alt: sourdough", "- Knead" >>,
      << "", "4", "", "", "", "" >> }

InitCsv ==
    /\ csv_pc = "start"
    /\ headers \in HeaderRows
    /\ recipes = << >>
    /\ current_recipe = None
    /\ current_cuisine = None
    /\ current_subcategory = None
    /\ rows_read = << >>
    /\ arg = "" /\ ret = NoCall
    /\ pc = "start" /\ file_exists = TRUE /\ generate_meta = FALSE
    /\ category_db = EmptyDict /\ meta_db = None
    /\ skipped = 0 /\ classified = 0 /\ unclassified = 0 /\ i = 0
    /\ row = None /\ name = None /\ off_cat = None /\ tags = None /\ cat = None
    /\ calls = << >> /\ outcome = "none" /\ written = << >> /\ log = << >>

\* "headers = next(reader)" and the normalization of the header row
ReadCsvHeaders ==
    /\ csv_pc = "start"
    /\ csv_pc' = "rows"
    /\ headers' = normalize_headers(headers)
    /\ UNCHANGED << recipes, current_recipe, current_cuisine, current_subcategory,
                    rows_read, build_vars >>

ReadCsvRow ==
    /\ csv_pc = "rows"
    /\ Len(rows_read) < MaxCsvRows
    /\ \E cells \in CsvRows :
        \E it \in {csv_iteration(headers, cells, recipes, current_recipe,
                                 current_cuisine, current_subcategory)} :
            /\ recipes' = it.recipes
            /\ current_recipe' = it.current_recipe
            /\ current_cuisine' = it.current_cuisine
            /\ current_subcategory' = it.current_subcategory
            /\ rows_read' = Append(rows_read, [cells |-> cells, kind |-> it.kind])
    /\ UNCHANGED << csv_pc, headers, build_vars >>

\* a return that forgets the recipe still being collected
ReturnRecipes_without_last ==
    /\ csv_pc = "rows"
    /\ csv_pc' = "returned"
    /\ UNCHANGED << recipes, headers, current_recipe, current_cuisine,
                    current_subcategory, rows_read, build_vars >>

\* the reader is exhausted: the last recipe is appended and the list returned
ReturnRecipes ==
    /\ csv_pc = "rows"
    /\ csv_pc' = "returned"
    /\ recipes' = IF current_recipe # None
                  THEN Append(recipes, current_recipe[1]) ELSE recipes
    /\ UNCHANGED << headers, current_recipe, current_cuisine, current_subcategory,
                    rows_read, build_vars >>

NextCsv == ReadCsvHeaders \/ ReadCsvRow \/ ReturnRecipes

SpecCsv == InitCsv /\ [][NextCsv]_vars

(***************************************************************************)
(* Properties                                                              *)
(***************************************************************************)
\* the indices of the name rules all of whose keywords occur in the text
MatchingNameRules(text) ==
    {k \in DOMAIN KEYWORD_RULES :
        \A j \in DOMAIN KEYWORD_RULES[k][1] : Contains(text, KEYWORD_RULES[k][1][j])}

\* the indices of the category-field rules whose keyword occurs in the text
MatchingOffRules(text) ==
    {k \in DOMAIN OFF_CATEGORY_MAP : Contains(text, OFF_CATEGORY_MAP[k][1])}

IsWordChar(c) ==
    \E k \in 1..Len("abcdefghijklmnopqrstuvwxyz0123456789_") :
        CharAt("abcdefghijklmnopqrstuvwxyz0123456789_", k) = c

\* the keyword occurs in the text with a word boundary on both sides
WholeWord(text, kw) ==
    \E p \in 1..(Len(text) - Len(kw) + 1) :
        /\ SubSeq(text, p, p + Len(kw) - 1) = kw
        /\ p = 1 \/ ~IsWordChar(CharAt(text, p - 1))
        /\ p + Len(kw) - 1 = Len(text) \/ ~IsWordChar(CharAt(text, p + Len(kw)))

\* the three reasons the ingredient filter has to reject a name
Rejected(text) ==
    \/ Len(text) > 60
    \/ \E p \in 1..(Len(text) - 4) : \A k \in 0..4 : IsDigit(CharAt(text, p + k))
    \/ \E k \in DOMAIN skip_words : Contains(text, skip_words[k])

\* the normalized product name of a row
NormalizedName(r) == strip(lower(or_empty(get(r, "product_name"))))

\* the rows whose normalized name is empty or one character long
ShortNameRows == {r \in Rows : Len(NormalizedName(r)) < 2}

\* the rows whose normalized name is longer and has a reason to be rejected
RejectedNameRows ==
    {r \in Rows : Len(NormalizedName(r)) >= 2 /\ Rejected(NormalizedName(r))}

\* what the two matchers return for the texts of the rows
NameResults ==
    [n \in {NormalizedName(r) : r \in Rows} |-> classify_by_name(n)]

OffCategoryResults ==
    [t \in {lower(or_empty(get(r, "main_category_en"))) : r \in Rows}
            \cup {lower(or_empty(get(r, "categories_tags"))) : r \in Rows}
        |-> classify_by_off_category(t)]

\* the last iteration got past the short-name check and the ingredient filter
Accepted == outcome \in {"classified", "unclassified"}

\* C1: every name that contains the compound term "olive oil" is classified
\* "oil" by classify_by_name, not "pantry" (the category of the single-word
\* rule "olive").
C1_CompoundBeatsSingleWord ==
    (ret.fn = "classify_by_name" /\ Contains(arg, "olive oil"))
        => ret.run.result = Some("oil")

\* C2: the rule classify_by_name selects has every single-word keyword present
\* in the name as a whole word, never only inside a longer word.
C2_SingleWordIsWholeWord ==
    (ret.fn = "classify_by_name" /\ ret.run.found)
        => \A j \in DOMAIN KEYWORD_RULES[ret.run.examined][1] :
              LET kw == KEYWORD_RULES[ret.run.examined][1][j]
              IN  ~Contains(kw, " ") => WholeWord(arg, kw)

\* C3: no value of the category mapping and no "cat" field of the metadata
\* mapping is the ordinal of "unknown" (22), and a row is classified only when
\* its resolved category has another ordinal, which is the one stored.
C3_UnknownNeverStored ==
    /\ \A k \in DOMAIN category_db : category_db[k] # 22
    /\ meta_db # None => \A k \in DOMAIN meta_db[1] : meta_db[1][k]["cat"] # 22
    /\ outcome = "classified" =>
          /\ cat # None
          /\ CatIndex(cat[1]) # 22
          /\ category_db[name] = CatIndex(cat[1])
          /\ meta_db # None => meta_db[1][name]["cat"] = CatIndex(cat[1])

C3_Witness ==
    /\ outcome = "classified"
    /\ meta_db # None
    /\ name \in DOMAIN meta_db[1]
    /\ category_db[name] = 23

\* C4: for a row past the short-name check and the filter, the category is the
\* name matcher's if it matches, else the category-field matcher's on the
\* primary text if that is a category, else the matcher's on the tags; with
\* none the row is unclassified.  The primary text is consulted only after a
\* name no-match, the tags only after both earlier sources gave no match.
C4_SourcePriority ==
    Accepted =>
        LET by_name == NameResults[name]
            by_cat  == OffCategoryResults[off_cat]
            by_tags == OffCategoryResults[tags]
            expected == IF by_name # None THEN by_name
                        ELSE IF by_cat # None THEN by_cat ELSE by_tags
        IN  /\ cat = expected
            /\ (outcome = "unclassified") <=> (expected = None)
            /\ outcome = "classified" => category_db[name] = CAT[expected[1]]
            /\ calls[1] = <<"is_culinary_ingredient", name, off_cat, tags>>
            /\ calls[2] = <<"classify_by_name", name>>
            /\ Len(calls) = IF by_name # None THEN 2 ELSE IF by_cat # None THEN 3 ELSE 4
            /\ Len(calls) >= 3 => calls[3] = <<"classify_by_off_category", off_cat>>
            /\ Len(calls) = 4 => calls[4] = <<"classify_by_off_category", tags>>

C4_Witness ==
    /\ outcome = "classified"
    /\ off_cat = "plant-based milk"
    /\ tags = "en:beverages"
    /\ Len(calls) = 4
    /\ cat = Some("beverage")
    /\ category_db[name] = 21

\* C5: classify_by_name returns the target of the lowest-index rule all of
\* whose keywords occur in the name and tests no later rule; with no such
\* rule it returns None, never "unknown".  A name containing "miso" is never
\* resolved by the later "miso" -> "condiment" entry.
C5_FirstNameRuleWins ==
    ret.fn = "classify_by_name" =>
        LET matching == MatchingNameRules(arg)
        IN  /\ matching = {} => ret.run.result = None /\ ~ret.run.found
            /\ matching # {} =>
                  \E k \in matching :
                      /\ \A m \in matching : k <= m
                      /\ ret.run.result = Some(KEYWORD_RULES[k][2])
                      /\ ret.run.examined = k
            /\ ret.run.result # Some("unknown")
            /\ arg = "miso" => ret.run.result = Some("pantry")
            /\ Contains(arg, "miso") => ret.run.result # Some("condiment")

C5_Witness ==
    /\ ret.fn = "classify_by_name"
    /\ arg = "miso"
    /\ Cardinality(MatchingNameRules(arg)) = 2
    /\ ret.run.result = Some("pantry")

\* C6: on a non-empty text classify_by_off_category returns the target of the
\* first rule whose keyword occurs in the text and tests no later rule; when
\* that target is None the result is None even if a later rule with a
\* category matches ("plant-based milk" gives None, not "dairy").
C6_FirstOffRuleWins ==
    (ret.fn = "classify_by_off_category" /\ arg # "") =>
        LET matching == MatchingOffRules(arg)
        IN  /\ matching = {} => ret.run.result = None /\ ~ret.run.found
            /\ matching # {} =>
                  \E k \in matching :
                      /\ \A m \in matching : k <= m
                      /\ ret.run.result = OFF_CATEGORY_MAP[k][2]
                      /\ ret.run.examined = k
            /\ arg = "plant-based milk" => ret.run.result = None /\ ret.run.examined = 1

C6_Witness ==
    /\ ret.fn = "classify_by_off_category"
    /\ arg = "plant-based milk"
    /\ \E k \in MatchingOffRules(arg) : OFF_CATEGORY_MAP[k][2] = Some("dairy")
    /\ ret.run.found
    /\ ret.run.result = None

\* C7: classify_by_off_category returns None for the empty text and tests no
\* rule; a row with no name-rule match and empty category and tags text ends
\* unclassified.
C7_EmptyTextNoMatch ==
    /\ off_category_run("") = [found |-> FALSE, result |-> None, examined |-> 0]
    /\ (Accepted /\ NameResults[name] = None /\ off_cat = "" /\ tags = "")
          => /\ outcome = "unclassified"
             /\ cat = None

C7_Witness ==
    /\ outcome = "unclassified"
    /\ name = "xyz"
    /\ off_cat = ""
    /\ tags = ""
    /\ unclassified = 1

\* C8: a row whose normalized name is empty or one character long is filtered
\* whatever its category and tags text: only the filtered counter moves, no
\* function is called and neither mapping changes.
C8_ShortNameFiltered ==
    [][(i' = i + 1 /\ row' \in ShortNameRows) =>
          /\ outcome' = "filtered"
          /\ skipped' = skipped + 1
          /\ classified' = classified
          /\ unclassified' = unclassified
          /\ calls' = << >>
          /\ category_db' = category_db
          /\ meta_db' = meta_db]_vars

C8_Witness ==
    /\ outcome = "filtered"
    /\ row = [main_category_en |-> Some("Dairy")]
    /\ name = ""
    /\ calls = << >>
    /\ skipped = 1

\* C9: a row whose name has a skip word, a run of 5 or more digits or more than
\* 60 characters is filtered whatever its category and tags text: the filtered
\* counter moves and the unclassified counter does not, no matcher is called
\* and no mapping changes.
C9_RejectedNameFiltered ==
    [][(i' = i + 1 /\ row' \in RejectedNameRows) =>
          /\ outcome' = "filtered"
          /\ skipped' = skipped + 1
          /\ classified' = classified
          /\ unclassified' = unclassified
          /\ calls' = << <<"is_culinary_ingredient", name', off_cat', tags'>> >>
          /\ category_db' = category_db
          /\ meta_db' = meta_db]_vars

C9_Witness ==
    /\ outcome = "filtered"
    /\ name = "pizza margherita"
    /\ off_cat = "dairy"
    /\ tags = "en:beverages"
    /\ Len(calls) = 1
    /\ unclassified = 0

\* C10: is_culinary_ingredient returns FALSE exactly when the name has more
\* than 60 characters, a run of 5 or more digits or a skip word, whatever the
\* category and tags text it is given.
C10_FilterExact ==
    ret.fn = "is_culinary_ingredient" =>
        /\ ret.val = ~Rejected(arg)
        /\ Len(arg) = 60 /\ ~HasDigitRun(arg) /\ ~Contains(arg, "pizza") => ret.val
        /\ \A o \in {"", "dairy", "pizza"}, t \in {"", "en:snacks", "12345"} :
              is_culinary_ingredient(arg, o, t) = ret.val

C10_Witness ==
    /\ ret.fn = "is_culinary_ingredient"
    /\ Len(arg) = 60
    /\ ret.off_cat = "dairy"
    /\ ret.val = TRUE

\* C11: every iteration moves exactly one of the three counters, by one, and
\* after n rows classified + unclassified + skipped = n.
C11_OneCounterPerRow ==
    /\ [](classified + unclassified + skipped = i)
    /\ [][i' = i + 1 =>
            \/ /\ classified' = classified + 1
               /\ unclassified' = unclassified /\ skipped' = skipped
            \/ /\ unclassified' = unclassified + 1
               /\ classified' = classified /\ skipped' = skipped
            \/ /\ skipped' = skipped + 1
               /\ classified' = classified /\ unclassified' = unclassified]_vars

C11_Witness ==
    /\ i = 2
    /\ classified = 1
    /\ skipped = 1
    /\ unclassified = 0

\* the positions of the rows read so far that are classified under the name
ClassifiedAs(n) ==
    {k \in DOMAIN log : log[k].name = n /\ log[k].outcome = "classified"}

\* C12: the category mapping has one entry for each name some row read so far
\* is classified under, and its value is the ordinal of the last such row;
\* a name that is already a key is written again without an error.
C12_LastWriteWins ==
    /\ [](DOMAIN category_db =
              {n \in {log[k].name : k \in DOMAIN log} : ClassifiedAs(n) # {}})
    /\ [](\A n \in DOMAIN category_db :
              \E k \in ClassifiedAs(n) :
                  /\ \A j \in ClassifiedAs(n) : j <= k
                  /\ category_db[n] = log[k].cat[1])
    /\ [][(i' = i + 1 /\ name' \in DOMAIN category_db /\ classified' = classified + 1)
            => /\ DOMAIN category_db' = DOMAIN category_db
               /\ category_db'[name'] = CatIndex(cat'[1])
               /\ pc' = "raised" => generate_meta]_vars

C12_Witness ==
    /\ pc = "rows"
    /\ classified = 2
    /\ Cardinality(DOMAIN category_db) = 1
    /\ log[1].cat # log[2].cat
    /\ category_db[name] = log[2].cat[1]

\* C13: an iteration that ends unclassified or filtered leaves the category
\* mapping and the metadata mapping as they were, an entry written earlier
\* under the same name included.
C13_NoOutputRowFrame ==
    [][(i' = i + 1 /\ outcome' \in {"unclassified", "filtered"})
          => /\ category_db' = category_db
             /\ meta_db' = meta_db]_vars

C13_Witness ==
    /\ outcome = "unclassified"
    /\ meta_db # None
    /\ name \in DOMAIN category_db
    /\ name \in DOMAIN meta_db[1]
    /\ classified = 1

\* C14: with metadata generation on, the metadata mapping has the keys of the
\* category mapping and each record's "cat" is the category mapping's value;
\* with it off there is no metadata mapping.
C14_MetaKeysMatch ==
    IF generate_meta
    THEN /\ meta_db # None
         /\ DOMAIN meta_db[1] = DOMAIN category_db
         /\ \A k \in DOMAIN category_db : meta_db[1][k]["cat"] = category_db[k]
    ELSE meta_db = None

\* the metadata key each nutrition column is recorded under
NutritionKey ==
    [column \in NutritionColumns |->
        CASE column = "energy-kcal_100g"   -> "kcal"
          [] column = "proteins_100g"      -> "protein"
          [] column = "carbohydrates_100g" -> "carbs"
          [] column = "fat_100g"           -> "fat"
          [] column = "fiber_100g"         -> "fiber"
          [] column = "sodium_100g"        -> "sodium"]

\* C15: no iteration raises, whatever the row holds: the run goes on, and for
\* a classified row with metadata generation on the category entry and the
\* metadata record are written, a nutrition column holding a number is
\* recorded and one holding nothing or text that is no number is left out.
C15_MalformedNutritionOmitted ==
    [][i' = i + 1 =>
          /\ pc' = "rows"
          /\ (classified' = classified + 1 /\ generate_meta) =>
                /\ name' \in DOMAIN category_db'
                /\ name' \in DOMAIN meta_db'[1]
                /\ \A column \in NutritionColumns \cap DOMAIN row' :
                      /\ row'[column] = Some("12.34")
                            => NutritionKey[column] \in DOMAIN meta_db'[1][name']
                      /\ row'[column] \in {None, Some(""), Some("abc")}
                            => NutritionKey[column] \notin DOMAIN meta_db'[1][name']]_vars

\* C16: when the input file does not exist the run returns from the existence
\* check: no row is read, no counter moves, both mappings stay empty and no
\* artifact is written.
C16_MissingInputNoEffect ==
    ~file_exists =>
        /\ pc \in {"start", "returned"}
        /\ i = 0 /\ log = << >>
        /\ classified = 0 /\ unclassified = 0 /\ skipped = 0
        /\ category_db = EmptyDict
        /\ meta_db \in {None, Some(EmptyDict)}
        /\ written = << >>

C16_Witness ==
    /\ ~file_exists
    /\ pc = "returned"
    /\ generate_meta

\* C17: nothing is written before the loop over the rows has ended; each
\* artifact is written at most once and holds the whole mapping; a run that
\* read the input and has ended wrote the category artifact, and it wrote the
\* metadata artifact exactly when metadata generation is on.
C17_ArtifactsWrittenOnceAtEnd ==
    /\ [](written # << >> => pc = "done")
    /\ [](\A j, k \in DOMAIN written : written[j].path = written[k].path => j = k)
    /\ [](\A k \in DOMAIN written :
              \/ written[k].path = "ingredients_json.gz" /\ written[k].data = category_db
              \/ written[k].path = "ingredients_meta.gz" /\ written[k].data = meta_db[1])
    /\ [](pc \in {"done", "raised"} =>
              \E k \in DOMAIN written : written[k].path = "ingredients_json.gz")
    /\ [](pc = "done" =>
              (generate_meta <=>
                  \E k \in DOMAIN written : written[k].path = "ingredients_meta.gz"))

\* what a row is by itself: filtered, unclassified, or classified with the
\* ordinal of the first source that resolves a category
RowOutcome(r) ==
    LET n == NormalizedName(r)
        o == lower(or_empty(get(r, "main_category_en")))
        t == lower(or_empty(get(r, "categories_tags")))
        resolved == IF classify_by_name(n) # None THEN classify_by_name(n)
                    ELSE IF classify_by_off_category(o) # None
                    THEN classify_by_off_category(o)
                    ELSE classify_by_off_category(t)
    IN  IF Len(n) < 2 \/ Rejected(n) THEN [outcome |-> "filtered", cat |-> None]
        ELSE IF resolved = None THEN [outcome |-> "unclassified", cat |-> None]
        ELSE [outcome |-> "classified", cat |-> Some(CAT[resolved[1]])]

RowOutcomes == [r \in Rows |-> RowOutcome(r)]

\* the rows read so far, each classified by itself, merged in source order:
\* the entry of a later row replaces the entry of an earlier one
RECURSIVE MergeCategories(_)
MergeCategories(entries) ==
    IF entries = << >> THEN << >>
    ELSE IF entries[Len(entries)].outcome = "classified"
    THEN (entries[Len(entries)].name :> entries[Len(entries)].cat[1])
             @@ MergeCategories(SubSeq(entries, 1, Len(entries) - 1))
    ELSE MergeCategories(SubSeq(entries, 1, Len(entries) - 1))

RECURSIVE MergeMeta(_)
MergeMeta(entries) ==
    IF entries = << >> THEN << >>
    ELSE IF entries[Len(entries)].meta # None
    THEN (entries[Len(entries)].name :> entries[Len(entries)].meta[1])
             @@ MergeMeta(SubSeq(entries, 1, Len(entries) - 1))
    ELSE MergeMeta(SubSeq(entries, 1, Len(entries) - 1))

\* the number of rows read so far that are, by themselves, of the outcome
CountOf(o) == Cardinality({k \in DOMAIN log : log[k].outcome = o})

\* C19: what an iteration does with its row is decided by the row alone, and
\* the mappings and the counters are those of classifying each row read so
\* far by itself and merging in source order, a later row replacing an
\* earlier one of the same name.
C19_SequentialIsIndependentMerge ==
    /\ [](DOMAIN category_db = DOMAIN MergeCategories(log))
    /\ [](\A n \in DOMAIN category_db : category_db[n] = MergeCategories(log)[n])
    /\ [](meta_db # None => DOMAIN meta_db[1] = DOMAIN MergeMeta(log))
    /\ [](meta_db # None =>
              \A n \in DOMAIN meta_db[1] : meta_db[1][n] = MergeMeta(log)[n])
    /\ [](/\ classified = CountOf("classified")
          /\ unclassified = CountOf("unclassified")
          /\ skipped = CountOf("filtered"))
    /\ [][i' = i + 1 =>
            /\ log'[i'].outcome = RowOutcomes[row'].outcome
            /\ log'[i'].cat = RowOutcomes[row'].cat
            /\ outcome' \in {RowOutcomes[row'].outcome, "raised"}
            /\ SubSeq(log', 1, i) = log]_vars

C19_Witness ==
    /\ pc = "done"
    /\ meta_db # None
    /\ i = 2
    /\ log[1].outcome = "classified" /\ log[2].outcome = "classified"
    /\ log[1].name = log[2].name
    /\ log[1].meta # log[2].meta
    /\ meta_db[1][name] = log[2].meta[1]

\* C20: classify_by_name("sun-dried tomato in olive oil") is "pantry": the
\* rule it selects is the "sun-dried tomato" rule, which no matching rule and
\* no rule whose target is "oil" precedes.
C20_SunDriedTomatoIsPantry ==
    (ret.fn = "classify_by_name" /\ arg = "sun-dried tomato in olive oil") =>
        /\ ret.run.found
        /\ ret.run.result = Some("pantry")
        /\ KEYWORD_RULES[ret.run.examined] = << <<"sun-dried tomato">>, "pantry" >>
        /\ \A k \in MatchingNameRules(arg) : k >= ret.run.examined
        /\ \A k \in DOMAIN KEYWORD_RULES :
              KEYWORD_RULES[k][2] = "oil" => k > ret.run.examined
        /\ \E k \in MatchingNameRules(arg) : KEYWORD_RULES[k][2] = "oil"

C20_Witness ==
    /\ ret.fn = "classify_by_name"
    /\ arg = "sun-dried tomato in olive oil"
    /\ ret.run.result = Some("pantry")

\* C21: the lookup of a name that is not in the category list returns the
\* ordinal of "unknown" (22), no error, and the row is then unclassified; a
\* listed name other than "unknown" returns its own ordinal and is stored.
C21_UnlistedNameIsUnknown ==
    ret.fn = "CAT.get" =>
        /\ (\A k \in DOMAIN CATEGORIES : CATEGORIES[k] # ret.cat)
              => ret.val = 22 /\ ret.outcome = "unclassified"
        /\ \A k \in DOMAIN CATEGORIES :
              CATEGORIES[k] = ret.cat =>
                  /\ ret.val = k - 1
                  /\ ret.outcome = IF k - 1 = 22 THEN "unclassified" ELSE "classified"

C21_Witness ==
    /\ ret.fn = "CAT.get"
    /\ ret.cat = "snack"
    /\ ret.val = 22
    /\ ret.outcome = "unclassified"

\* the ordinals the module's documentation gives
DocumentedOrdinals ==
    [produce |-> 0, meat |-> 1, poultry |-> 2, seafood |-> 3, egg |-> 4,
     cheese |-> 5, dairy |-> 6, grain |-> 7, pasta |-> 8, legume |-> 9,
     nut |-> 10, spice |-> 11, condiment |-> 12, oil |-> 13, vinegar |-> 14,
     flour |-> 15, sugar |-> 16, leavening |-> 17, alcohol |-> 18, pop |-> 19,
     juice |-> 20, beverage |-> 21, unknown |-> 22, pantry |-> 23]

\* C22: CATEGORIES lists 24 different names, CAT maps the name at position i
\* (counted from 0) to i and has no other key, the ordinals are the documented
\* ones, and the ordinal a run stores leads back to the resolved category.
C22_RegistryBijection ==
    /\ Len(CATEGORIES) = 24
    /\ \A j, k \in DOMAIN CATEGORIES : CATEGORIES[j] = CATEGORIES[k] => j = k
    /\ DOMAIN CAT = {CATEGORIES[k] : k \in DOMAIN CATEGORIES}
    /\ \A k \in DOMAIN CATEGORIES : CAT[CATEGORIES[k]] = k - 1
    /\ {CAT[c] : c \in DOMAIN CAT} = 0..23
    /\ CAT = DocumentedOrdinals
    /\ \A n \in DOMAIN category_db :
          /\ category_db[n] \in 0..23
          /\ CAT[CATEGORIES[category_db[n] + 1]] = category_db[n]
    /\ outcome = "classified" => CATEGORIES[category_db[name] + 1] = cat[1]

C22_Witness ==
    /\ pc = "done"
    /\ outcome = "classified"
    /\ cat = Some("dairy")
    /\ category_db[name] = 6

\* the lower-cased dietary-label text of each row
LabelTexts == [r \in Rows |-> lower(or_empty(get(r, "labels_en")))]

\* C23: the metadata record of a row whose label text contains "vegan" has
\* the vegan flag and no vegetarian flag, also when the text contains
\* "vegetarian" too; with "vegetarian" alone it has the vegetarian flag only,
\* with neither word it has neither flag; no record has both flags.
C23_VeganBeforeVegetarian ==
    /\ meta_db # None =>
          \A n \in DOMAIN meta_db[1] :
              ~("vegan" \in DOMAIN meta_db[1][n] /\ "vegetarian" \in DOMAIN meta_db[1][n])
    /\ (outcome = "classified" /\ meta_db # None) =>
          /\ "vegan" \in DOMAIN meta_db[1][name]
                <=> Contains(LabelTexts[row], "vegan")
          /\ "vegetarian" \in DOMAIN meta_db[1][name]
                <=> (/\ Contains(LabelTexts[row], "vegetarian")
                     /\ ~Contains(LabelTexts[row], "vegan"))
          /\ "vegan" \in DOMAIN meta_db[1][name] => meta_db[1][name]["vegan"] = TRUE
          /\ "vegetarian" \in DOMAIN meta_db[1][name]
                => meta_db[1][name]["vegetarian"] = TRUE

C23_Witness ==
    /\ outcome = "classified"
    /\ meta_db # None
    /\ row = [product_name |-> Some("Tofu"), labels_en |-> Some("Vegetarian, Vegan")]
    /\ meta_db[1][name] = [cat |-> 6, vegan |-> TRUE]

\* the pairs of one-keyword rules <<a, b>> where the keyword of a is a proper
\* substring of the multi-word keyword of b, the targets differ, and a is
\* listed before b
MisorderedRules ==
    {p \in (DOMAIN KEYWORD_RULES) \X (DOMAIN KEYWORD_RULES) :
        /\ Len(KEYWORD_RULES[p[1]][1]) = 1
        /\ Len(KEYWORD_RULES[p[2]][1]) = 1
        /\ p[1] < p[2]
        /\ KEYWORD_RULES[p[1]][2] # KEYWORD_RULES[p[2]][2]
        /\ KEYWORD_RULES[p[1]][1][1] # KEYWORD_RULES[p[2]][1][1]
        /\ Contains(KEYWORD_RULES[p[2]][1][1], " ")
        /\ Contains(KEYWORD_RULES[p[2]][1][1], KEYWORD_RULES[p[1]][1][1])}

\* C24: no rule whose keyword is a proper substring of the multi-word keyword
\* of a rule with another target is listed before that rule, so the name
\* matcher never returns the target of the shorter keyword for a name that
\* holds the longer one.
C24_SpecificRuleListedFirst ==
    /\ MisorderedRules = {}
    /\ (ret.fn = "classify_by_name" /\ Contains(arg, "olive oil"))
          => ret.run.examined # 20

\* C25: the name rules are matched against the combined text of the product
\* name, the category text and the tags text: when a rule has all its
\* keywords in the combined text, the category of the row is the target of
\* the first such rule.
C25_RuleMatchesCombinedText ==
    (Accepted /\ MatchingNameRules(name \o " " \o off_cat \o " " \o tags) # {})
        => /\ cat = classify_by_name(name \o " " \o off_cat \o " " \o tags)
           /\ outcome = "classified"

\* the categories the two rule tables name as targets
RuleTargets ==
    {KEYWORD_RULES[k][2] : k \in DOMAIN KEYWORD_RULES}
        \cup {OFF_CATEGORY_MAP[k][2][1] :
                 k \in {j \in DOMAIN OFF_CATEGORY_MAP : OFF_CATEGORY_MAP[j][2] # None}}

\* C28: every target of the two rule tables is a listed category other than
\* "unknown"; a resolved category never has the ordinal of "unknown", and a
\* row past the filter is unclassified exactly when the name matcher, the
\* matcher on the primary category text and the matcher on the tags text all
\* return no match.
C28_TargetsAreListedCategories ==
    /\ RuleTargets \subseteq {CATEGORIES[k] : k \in DOMAIN CATEGORIES} \ {"unknown"}
    /\ Accepted =>
          /\ cat # None => cat[1] \in RuleTargets /\ CatIndex(cat[1]) # 22
          /\ outcome = "unclassified"
                <=> /\ NameResults[name] = None
                    /\ OffCategoryResults[off_cat] = None
                    /\ OffCategoryResults[tags] = None
    /\ unclassified > 0 => \E k \in DOMAIN log : log[k].outcome = "unclassified"

C28_Witness ==
    /\ outcome = "unclassified"
    /\ name = "xyz"
    /\ off_cat = "plant-based milk"
    /\ MatchingOffRules(off_cat) # {}
    /\ unclassified = 2

\* the names that can be keys: lower-case, no white space at either end, 2 to
\* 60 characters, no run of 5 digits and no denylist term
GoodKeys ==
    {n \in {Iterations[r].name : r \in Rows} :
        /\ Len(n) >= 2 /\ Len(n) <= 60
        /\ ~IsSpace(CharAt(n, 1)) /\ ~IsSpace(CharAt(n, Len(n)))
        /\ \A p \in 1..Len(n) : ~Contains("ABCDEFGHIJKLMNOPQRSTUVWXYZ", CharAt(n, p))
        /\ ~Rejected(n)}

\* C29: every key of the category mapping is a lower-cased, trimmed name of 2
\* to 60 characters that the ingredient filter accepts, and every value is an
\* ordinal from 0 to 23.
C29_KeysAndValuesWellFormed ==
    /\ DOMAIN category_db \subseteq GoodKeys
    /\ \A n \in DOMAIN category_db : category_db[n] \in 0..23
    /\ outcome = "classified" => name \in DOMAIN category_db

C29_Witness ==
    /\ pc = "done"
    /\ row \in {r \in Rows : "product_name" \in DOMAIN r /\ r["product_name"] = Some("  Cola ")}
    /\ "cola" \in DOMAIN category_db
    /\ Cardinality(DOMAIN category_db) = 2

\* C30: the category mapping never has more entries than the classified
\* counter says, and has as many exactly when no two classified rows read so
\* far have the same name.
C30_EntriesAtMostClassified ==
    /\ Cardinality(DOMAIN category_db) <= classified
    /\ Cardinality(DOMAIN category_db) = classified
          <=> \A j, k \in DOMAIN log :
                  (/\ log[j].outcome = "classified"
                   /\ log[k].outcome = "classified"
                   /\ log[j].name = log[k].name) => j = k

C30_Witness ==
    /\ classified = 2
    /\ Cardinality(DOMAIN category_db) = 1
    /\ log[1].cat = log[2].cat
    /\ pc = "done"

\* ---- the multi-row CSV parser ----

\* the header rows, as read and as normalized
AllHeaderRows == HeaderRows \cup {normalize_headers(h) : h \in HeaderRows}

NameColumnHeaders ==
    {hs \in AllHeaderRows : \E k \in DOMAIN hs : strip(lower(hs[k])) = "name"}

HasNameColumn == headers \in NameColumnHeaders

\* the value of a column of a row, stripped ("" when the file has no such column)
ColumnOf(hs, cells, col) == strip(dict_get(row_dict(hs, cells), col, ""))

HasMetadata(hs, cells) ==
    \/ ColumnOf(hs, cells, "serves") # ""
    \/ ColumnOf(hs, cells, "time") # ""
    \/ ColumnOf(hs, cells, "pairs with") # ""
    \/ ColumnOf(hs, cells, "pairs_with") # ""

IsSectionHeader(hs, cells) ==
    /\ ColumnOf(hs, cells, "name") # ""
    /\ ColumnOf(hs, cells, "serves") = "" /\ ColumnOf(hs, cells, "time") = ""
    /\ ColumnOf(hs, cells, "directions") = ""
    /\ \/ ColumnOf(hs, cells, "name") \in subcategory_headers
       \/ /\ WordCount(ColumnOf(hs, cells, "name")) <= 2
          /\ Contains(UpperCase, CharAt(ColumnOf(hs, cells, "name"), 1))

\* what each row is under each header row, by the columns it fills
RowFacts ==
    [raw \in AllHeaderRows |->
      LET hs == normalize_headers(raw) IN
        [cells \in CsvRows |->
            [name           |-> ColumnOf(hs, cells, "name"),
             section_header |-> IsSectionHeader(hs, cells),
             recipe_start   |-> /\ ColumnOf(hs, cells, "name") # ""
                                /\ HasMetadata(hs, cells)
                                /\ ~IsSectionHeader(hs, cells),
             amount_only    |-> /\ ColumnOf(hs, cells, "name") # ""
                                /\ Len(cells) > 1 /\ strip(cells[2]) # ""
                                /\ ColumnOf(hs, cells, "time") = ""
                                /\ ColumnOf(hs, cells, "pairs with") = ""
                                /\ ColumnOf(hs, cells, "pairs_with") = ""]]]

Facts(cells) == RowFacts[headers][cells]

IsRecipeStart(e) == Facts(e.cells).recipe_start

StartName(e) == Facts(e.cells).name

MapNames(rr) == [k \in DOMAIN rr |-> StartName(rr[k])]

\* the names of the recipe-start rows read so far, in source order
StartNames == MapNames(SelectSeq(rows_read, IsRecipeStart))

RecipeNames == [k \in DOMAIN recipes |-> recipes[k].name]

\* C26: for a CSV with a name column the returned list holds exactly one
\* recipe per recipe-start row, in source order and including the last one;
\* while rows are read, the list plus the recipe being collected does; blank
\* rows and section-header rows add none.
C26_OneRecipePerStartRow ==
    HasNameColumn =>
        /\ csv_pc = "returned" => RecipeNames = StartNames
        /\ csv_pc = "rows" =>
              /\ current_recipe # None => RecipeNames \o << current_recipe[1].name >> = StartNames
              /\ current_recipe = None => RecipeNames = StartNames /\ StartNames = << >>

C26_Witness ==
    /\ csv_pc = "returned" /\ HasNameColumn
    /\ Len(recipes) >= 2
    /\ \E k \in DOMAIN rows_read :
          rows_read[k].cells = << >> \/ Facts(rows_read[k].cells).section_header

\* C27: a row read while a recipe is being collected, with an ingredient name
\* and an amount in the second column and nothing in the time and pairs-with
\* columns, is appended to that recipe's ingredients with the amount and
\* starts no recipe.
C27_AmountRowIsIngredient ==
    [][ \A cells \in CsvRows :
          ( /\ csv_pc = "rows" /\ HasNameColumn /\ current_recipe # None
            /\ Len(rows_read') = Len(rows_read) + 1
            /\ rows_read'[Len(rows_read')].cells = cells
            /\ Facts(cells).amount_only )
          => /\ recipes' = recipes
             /\ current_recipe' # None
             /\ current_recipe'[1].name = current_recipe[1].name
             /\ Len(current_recipe'[1].ingredients) = Len(current_recipe[1].ingredients) + 1
             /\ current_recipe'[1].ingredients[Len(current_recipe'[1].ingredients)].amount
                    = Some(strip(cells[2])) ]_vars


=============================================================================
